---- MODULE Spec2Model ----
(***************************************************************************)
(* A model of the ingestion engine of video-listing: the Injester's task   *)
(* queue and worker loop, the processing of one directory, the sidecar     *)
(* store (.info.json) and the HTTP "mark" handler that rewrites sidecars.  *)
(*                                                                         *)
(* Strings (paths, file names) are sequences of one-character strings, so  *)
(* that prefix tests, extensions and path cleaning are computed as the Go  *)
(* code computes them.  Times are naturals; 0 is the zero time.Time.       *)
(***************************************************************************)
EXTENDS Integers, Sequences, FiniteSets, TLC

VARIABLES
    fs,         \* the media tree: absolute directory -> name -> entry
    disk,       \* content of dir/.info.json per directory
    tmp,        \* the temporary file of each sidecar writer
    pending,    \* Injester.pending
    nextSeq,    \* serial number given to the next submitted task (history)
    submits,    \* number of external Queue calls made so far
    qin,        \* the options Queue is called with when only Queue is exercised
    mu,         \* holder of Injester.cond.L
    woken,      \* the worker, parked in cond.Wait, has been signalled
    cancelled,  \* the context given to Run is done
    cancelSeq,  \* nextSeq when the context was cancelled (history)
    pc,         \* position of the worker goroutine (Run / Process)
    cur,        \* the task being processed
    scan,       \* Process locals: lastTime, directories, files
    info,       \* Process local: the *InfoType being updated
    loadedID,   \* AniListID as ReadInfo returned it for this ingest (history)
    lookup,     \* how the requestInfo call of this ingest ended (history)
    reqs,       \* catalog HTTP requests issued by this ingest (history)
    clock,      \* wall clock, seconds
    deadline,   \* when the time.After channel of requestInfo fires
    starts,     \* start times of the requestInfo calls that contacted AniList
    mpc,        \* position of the ServeMark handler
    mreq,       \* the Mark request being served
    minfo,      \* ServeMark local: the *InfoType
    marks,      \* number of Mark requests made so far
    lastMark,   \* the last Mark request answered, with its status (history)
    fsChanges,  \* number of out-of-band changes made to the media tree
    scanStamp,  \* fsChanges when the current ingest began (history)
    result,     \* what the last finished task returned: "nil" or "err"
    lastPub,    \* the last sidecar the worker published (history)
    opc,        \* position of the ServeOverride handler
    oreq,       \* the Override request being served
    oinfo,      \* ServeOverride local: the *InfoType
    overrides,  \* number of Override requests made so far
    lastOverride, \* the last Override request answered (history)
    olog,       \* what each mark override read and wrote (history)
    args,       \* the arguments a function is applied to on its own
    ret,        \* the values it returned so far
    ch,         \* waitForPlaylist: the values buffered in ch
    closed,     \* waitForPlaylist: ch has been closed
    done,       \* waitForPlaylist: the flag shared by the two goroutines
    waited,     \* what waitForPlaylist returned: "none", "true" or "false"
    observed,   \* os.Lstat has returned nil for the playlist (history)
    playlist,   \* the playlist file: "absent" or "present"
    lerr,       \* the polling goroutine's err of its last os.Lstat
    ppc,        \* position of the polling goroutine
    wpc,        \* position of the goroutine that waits for ffmpeg
    cpc         \* position of the caller inside waitForPlaylist

vars == <<fs, disk, tmp, pending, nextSeq, submits, qin, mu, woken, cancelled, cancelSeq,
          pc, cur, scan, info, loadedID, lookup, reqs, clock, deadline, starts,
          mpc, mreq, minfo, marks, lastMark, fsChanges, scanStamp, result, lastPub,
          opc, oreq, oinfo, overrides, lastOverride, olog, args, ret,
          ch, closed, done, waited, observed, playlist, lerr, ppc, wpc, cpc>>

overrideVars == <<opc, oreq, oinfo, overrides, lastOverride, olog>>
callVars == <<args, ret>>
playVars == <<ch, closed, done, waited, observed, playlist, lerr, ppc, wpc, cpc>>

(***************************************************************************)
(* Bounds of the model.                                                    *)
(***************************************************************************)
MaxSubmits == 2
MaxMarks == 1
MaxOverrides == 2
MaxFsChanges == 1
MaxPathLen == 5
MaxNames == 3
MaxNameLen == 3
MaxDuration == 105
MaxClock == 21

(***************************************************************************)
(* Strings.                                                                *)
(***************************************************************************)
Sep == "/"
DotStr == <<".">>
DotDot == <<".", ".">>

HasPrefix(s, prefix) ==
    /\ Len(s) >= Len(prefix)
    /\ SubSeq(s, 1, Len(prefix)) = prefix

HasSuffix(s, suffix) ==
    /\ Len(s) >= Len(suffix)
    /\ SubSeq(s, Len(s) - Len(suffix) + 1, Len(s)) = suffix

Last(s) == s[Len(s)]
Front(s) == SubSeq(s, 1, Len(s) - 1)

RECURSIVE SplitPath(_)
SplitPath(s) ==
    IF s = <<>> THEN << <<>> >>
    ELSE LET rest == SplitPath(Tail(s)) IN
         IF Head(s) = Sep THEN << <<>> >> \o rest
         ELSE << <<Head(s)>> \o Head(rest) >> \o Tail(rest)

RECURSIVE JoinComps(_)
JoinComps(comps) ==
    IF comps = <<>> THEN <<>>
    ELSE IF Len(comps) = 1 THEN comps[1]
    ELSE comps[1] \o <<Sep>> \o JoinComps(Tail(comps))

RECURSIVE CleanComps(_, _, _)
CleanComps(comps, rooted, out) ==
    IF comps = <<>> THEN out
    ELSE LET c == Head(comps) IN
         IF c = <<>> \/ c = DotStr THEN CleanComps(Tail(comps), rooted, out)
         ELSE IF c = DotDot THEN
              IF out # <<>> /\ Last(out) # DotDot
                 THEN CleanComps(Tail(comps), rooted, Front(out))
              ELSE IF rooted THEN CleanComps(Tail(comps), rooted, out)
              ELSE CleanComps(Tail(comps), rooted, Append(out, c))
         ELSE CleanComps(Tail(comps), rooted, Append(out, c))

\* filepath.Clean on a Unix path
Clean(s) ==
    IF s = <<>> THEN DotStr
    ELSE LET rooted == (Head(s) = Sep)
             out == CleanComps(SplitPath(s), rooted, <<>>)
         IN  IF rooted THEN <<Sep>> \o JoinComps(out)
             ELSE IF out = <<>> THEN DotStr
             ELSE JoinComps(out)

\* filepath.Join of two elements: empty elements are ignored, the result is cleaned
Join(a, b) ==
    IF a = <<>> /\ b = <<>> THEN <<>>
    ELSE IF a = <<>> THEN Clean(b)
    ELSE IF b = <<>> THEN Clean(a)
    ELSE Clean(a \o <<Sep>> \o b)

\* Injester.root: the media root the process was started with
Root == <<"/", "m">>

(***************************************************************************)
(* File names and the media tree.                                          *)
(***************************************************************************)
NameS == <<"S">>
NameEaDir == <<"@", "e", "a", "D", "i", "r">>
NameTxt == <<"n", ".", "t", "x", "t">>
NameA == <<"a", ".", "m", "k", "v">>
NameB == <<"b", ".", "M", "K", "V">>
NameHidden == <<".", "h", ".", "m", "k", "v">>

\* os.ReadDir returns the entries sorted by file name (byte order)
NameOrder == <<NameHidden, NameEaDir, NameS, NameA, NameB, NameTxt>>

SDir == Root \o <<Sep>> \o NameS
ADir == SDir \o <<Sep>> \o NameA
Dirs == {Root, SDir, ADir}

NoEntries == [n \in {} |-> 0]
Entry(kind, mtime) == [kind |-> kind, mtime |-> mtime]

\* the tree the process starts on
InitTree ==
    [d \in Dirs |->
        IF d = Root THEN
            [exists |-> TRUE,
             ents |-> [n \in {NameS, NameEaDir, NameTxt} |->
                          IF n = NameS THEN Entry("dir", 2)
                          ELSE IF n = NameEaDir THEN Entry("dir", 3)
                          ELSE Entry("file", 1)]]
        ELSE IF d = SDir THEN
            [exists |-> TRUE,
             ents |-> [n \in {NameA, NameHidden} |->
                          IF n = NameA THEN Entry("file", 1) ELSE Entry("file", 2)]]
        ELSE [exists |-> FALSE, ents |-> NoEntries]]

mediaExtensions ==
    { <<".", "a", "s", "f">>, <<".", "a", "v", "i">>, <<".", "f", "4", "v">>,
      <<".", "f", "l", "v">>, <<".", "m", "k", "v">>, <<".", "m", "o", "v">>,
      <<".", "m", "p", "4">>, <<".", "m", "p", "g">>, <<".", "o", "g", "v">>,
      <<".", "r", "m">>, <<".", "r", "m", "v", "b">>, <<".", "w", "e", "b", "m">>,
      <<".", "w", "m", "v">> }

LowerChar(c) ==
    CASE c = "M" -> "m" [] c = "K" -> "k" [] c = "V" -> "v" [] c = "D" -> "d"
      [] c = "S" -> "s" [] OTHER -> c

\* strings.ToLower
ToLower(s) == [i \in 1..Len(s) |-> LowerChar(s[i])]

\* filepath.Ext: the suffix beginning at the last dot; empty without a dot
Ext(name) ==
    LET dots == {i \in 1..Len(name) : name[i] = "."} IN
    IF dots = {} THEN <<>>
    ELSE LET i == CHOOSE k \in dots : \A j \in dots : j <= k
         IN  SubSeq(name, i, Len(name))

IsHidden(name) == HasPrefix(name, DotStr)
IsMedia(name) == ToLower(Ext(name)) \in mediaExtensions

\* a comparison that takes any other time for a later one
AfterOrBefore(t, u) == t # u

\* time.Time.After
After(t, u) == t > u

Max(a, b) == IF a >= b THEN a ELSE b

RECURSIVE MaxOf(_)
MaxOf(S) ==
    IF S = {} THEN 0
    ELSE LET x == CHOOSE y \in S : TRUE IN Max(x, MaxOf(S \ {x}))

Restrict(f, S) == [x \in (DOMAIN f) \cap S |-> f[x]]
Extend(f, S, v) == [x \in (DOMAIN f) \cup S |-> IF x \in DOMAIN f THEN f[x] ELSE v]

SortedNames(S) == SelectSeq(NameOrder, LAMBDA n : n \in S)

\* the names Process keeps as directories (lines 497-512)
ScanDirectories(ents) ==
    {n \in DOMAIN ents : ~IsHidden(n) /\ ents[n].kind = "dir" /\ n # NameEaDir}

\* the names Process keeps as media files (lines 497-520)
ScanFiles(ents) ==
    {n \in DOMAIN ents : ~IsHidden(n) /\ ents[n].kind = "file" /\ IsMedia(n)}

\* the first part of injestDirectory.Process: one listing of the directory
ScanDir(ents) ==
    LET dirs == ScanDirectories(ents)
        files == ScanFiles(ents)
    IN  [lastTime |-> MaxOf({ents[n].mtime : n \in dirs \cup files}),
         directories |-> [n \in dirs |-> ents[n].mtime],
         files |-> SortedNames(files)]

NoScan == [lastTime |-> 0, directories |-> NoEntries, files |-> <<>>]

(***************************************************************************)
(* The sidecar store.                                                      *)
(***************************************************************************)
\* InfoType as ReadInfo creates it before decoding
EmptyInfo ==
    [Timestamp |-> 0, AniListID |-> 0, Seen |-> NoEntries, Injested |-> NoEntries,
     changed |-> FALSE, mtimes |-> NoEntries]

\* json.Encoder.Encode: only the exported fields reach the file
Encode(i) ==
    [Timestamp |-> i.Timestamp, AniListID |-> i.AniListID,
     Seen |-> i.Seen, Injested |-> i.Injested]

\* a decoder that does not fill Injested
DecodeWithoutInjested(data) ==
    [Timestamp |-> data.Timestamp, AniListID |-> data.AniListID,
     Seen |-> data.Seen, Injested |-> NoEntries,
     changed |-> FALSE, mtimes |-> NoEntries]

\* json.Decoder.Decode into the fresh InfoType: the unexported fields stay zero
Decode(data) ==
    [Timestamp |-> data.Timestamp, AniListID |-> data.AniListID,
     Seen |-> data.Seen, Injested |-> data.Injested,
     changed |-> FALSE, mtimes |-> NoEntries]

\* a file: bytes is "none" (no such file), "empty", "partial" or "full"
NoFile == [bytes |-> "none", data |-> Encode(EmptyInfo)]
File(bytes, data) == [bytes |-> bytes, data |-> data]

\* a walk that takes no notice of .NAME.seen files
MigratingSeenIgnored(ents) == {}

\* names marked by a legacy .NAME.seen file (lines 80-85)
MigratingSeen(ents) ==
    {SubSeq(n, 2, Len(n) - 5) :
        n \in {m \in DOMAIN ents :
                 /\ IsHidden(m)
                 /\ Len(m) > 5
                 /\ HasSuffix(m, <<".", "s", "e", "e", "n">>)}}

\* the walk of ReadInfo over the directory entries (lines 72-136)
Reconcile(i, migrate, ents) ==
    LET visible == {n \in DOMAIN ents : ~IsHidden(n)}
        eaDir == {n \in visible : ents[n].kind = "dir" /\ n = NameEaDir}
        dirs == {n \in visible : ents[n].kind = "dir" /\ n # NameEaDir}
        files == {n \in visible : ents[n].kind = "file" /\ IsMedia(n)}
        seen == dirs \cup files
        inj0 == Restrict(i.Injested, (DOMAIN i.Injested) \ eaDir)
        inj1 == Extend(inj0, dirs, 0)
        seen1 == Extend(i.Seen, files, FALSE)
        marked == MigratingSeen(ents)
        seen2 == [n \in DOMAIN seen1 |->
                     IF migrate /\ n \in marked THEN TRUE ELSE seen1[n]]
    IN  [Timestamp |-> i.Timestamp,
         AniListID |-> i.AniListID,
         Seen |-> Restrict(seen2, seen),
         Injested |-> Restrict(inj1, seen),
         changed |-> \/ i.changed
                     \/ dirs \ DOMAIN inj0 # {}
                     \/ files \ DOMAIN i.Seen # {}
                     \/ (DOMAIN inj1) \ seen # {}
                     \/ (DOMAIN seen1) \ seen # {},
         mtimes |-> [n \in seen |-> ents[n].mtime]]

\* a ReadInfo that takes a sidecar it cannot decode for a missing one
ReadInfoLenient(file, dir) ==
    IF ~dir.exists THEN [err |-> TRUE, info |-> EmptyInfo]
    ELSE [err |-> FALSE,
          info |-> Reconcile(IF file.bytes = "full" THEN Decode(file.data) ELSE EmptyInfo,
                             file.bytes # "full", dir.ents)]

\* ReadInfo(directory, true): file is directory/.info.json, dir the directory
ReadInfo(file, dir) ==
    IF file.bytes \in {"empty", "partial"} THEN [err |-> TRUE, info |-> EmptyInfo]
    ELSE LET migrate == (file.bytes = "none")
             i == IF migrate THEN EmptyInfo ELSE Decode(file.data)
         IN  IF ~dir.exists THEN [err |-> TRUE, info |-> EmptyInfo]
             ELSE [err |-> FALSE, info |-> Reconcile(i, migrate, dir.ents)]

\* ReadInfo(directory, false): the stored record alone, no walk of the directory
ReadInfoStored(file) ==
    IF file.bytes \in {"empty", "partial"} THEN [err |-> TRUE, info |-> EmptyInfo]
    ELSE IF file.bytes = "none" THEN [err |-> FALSE, info |-> EmptyInfo]
    ELSE [err |-> FALSE, info |-> Decode(file.data)]

(***************************************************************************)
(* The task queue.                                                         *)
(***************************************************************************)
\* &injestDirectory{QueueOptions{Directory, ID, Force}}; seq is the history serial
InjestTask(dir, id, force) ==
    [kind |-> "injest", path |-> dir, ID |-> id, Force |-> force, seq |-> 0]

\* &createThumbnail{absPath}
ThumbTask(absPath) ==
    [kind |-> "thumbnail", path |-> absPath, ID |-> 0, Force |-> FALSE, seq |-> 0]

NoTask == [kind |-> "none", path |-> <<>>, ID |-> 0, Force |-> FALSE, seq |-> 0]

Stamp(task, n) == [task EXCEPT !.seq = n]

\* a queue that refuses tasks once the context is done
queueUnlessCancelled(q, task) == IF cancelled THEN q ELSE Append(q, task)

\* Injester.queue: i.pending = append(i.pending, task)
queue(q, task) == Append(q, task)

RECURSIVE QueueEach(_, _, _)
QueueEach(q, tasks, n) ==
    IF tasks = <<>> THEN q
    ELSE QueueEach(queue(q, Stamp(Head(tasks), n)), Tail(tasks), n + 1)

\* a queue that appends and does not signal the condition
SubmitWithoutSignal(tasks) ==
    /\ mu = "none"
    /\ pending' = QueueEach(pending, tasks, nextSeq)
    /\ nextSeq' = nextSeq + Len(tasks)
    /\ woken' = woken

\* a run of calls of Injester.queue: each takes the lock, appends and signals
Submit(tasks) ==
    /\ mu = "none"
    /\ pending' = QueueEach(pending, tasks, nextSeq)
    /\ nextSeq' = nextSeq + Len(tasks)
    /\ woken' = (woken \/ (tasks # <<>> /\ pc = "waiting"))

\* the path check without the separator after the root
RejectedNoSeparator(dir) ==
    /\ dir # DotStr
    /\ ~HasPrefix(Clean(Join(Root, dir)), Clean(Root))

\* the path check of Injester.Queue: true when the submission is refused
Rejected(dir) ==
    /\ dir # DotStr
    /\ ~HasPrefix(Clean(Join(Root, dir)), Clean(Root) \o <<Sep>>)

Options(dir, id, force) == [Directory |-> dir, ID |-> id, Force |-> force]

\* Injester.Queue(opts)
QueueCall(opts) ==
    /\ IF Rejected(opts.Directory)
          THEN UNCHANGED <<pending, nextSeq, woken>>
          ELSE Submit(<<InjestTask(opts.Directory, opts.ID, opts.Force)>>)

\* a pop from the front of the slice
TakeOldest(q) == [task |-> Head(q), rest |-> Tail(q)]

\* the pop at the end of the critical section of Run
Take(q) == [task |-> Last(q), rest |-> Front(q)]

(***************************************************************************)
(* The worker: Injester.Run and the tasks' Process.                        *)
(***************************************************************************)
\* time.After(10 * time.Second)
RateLimitSeconds == 10
\* the id AniList answers a title search with
SearchID == 7

absPath(task) == Join(Root, task.path)
DirOf(abs) == IF abs \in Dirs THEN fs[abs] ELSE [exists |-> FALSE, ents |-> NoEntries]
FileOf(abs) == IF abs \in Dirs THEN disk[abs] ELSE NoFile

NoStarts == [n |-> 0, first |-> 0, prev |-> 0, last |-> 0]

\* a Run that returns the error of its task
FinishOrReturn(res) ==
    /\ pc' = IF res = "err" THEN "returned" ELSE "select"
    /\ result' = res
    /\ scan' = NoScan
    /\ info' = EmptyInfo
    /\ loadedID' = 0
    /\ lookup' = "none"
    /\ reqs' = 0

\* the task returned res: Run logs an error and loops
Finish(res) ==
    /\ pc' = "select"
    /\ result' = res
    /\ scan' = NoScan
    /\ info' = EmptyInfo
    /\ loadedID' = 0
    /\ lookup' = "none"
    /\ reqs' = 0

queueVars == <<pending, nextSeq, woken>>
markVars == <<mpc, mreq, minfo, marks, lastMark>>
timeVars == <<clock, deadline, starts>>
localVars == <<scan, info, loadedID, lookup, reqs>>

RunSelect ==
    /\ pc = "select"
    /\ pc' = IF cancelled THEN "returned" ELSE "lock"
    /\ UNCHANGED <<fs, disk, tmp, queueVars, submits, qin, mu, cancelled, cancelSeq, overrideVars, callVars, playVars,
                   cur,
                   localVars, timeVars, markVars, fsChanges, scanStamp, result, lastPub>>

RunLock ==
    /\ pc = "lock"
    /\ mu = "none"
    /\ mu' = "worker"
    /\ pc' = "check"
    /\ UNCHANGED <<fs, disk, tmp, queueVars, submits, qin, cancelled, cancelSeq, overrideVars, callVars, playVars,
                   cur,
                   localVars, timeVars, markVars, fsChanges, scanStamp, result, lastPub>>

\* a Run that keeps the lock while its task is processed
RunCheckKeepingLock ==
    /\ pc = "check"
    /\ IF pending = <<>>
          THEN /\ pc' = "waiting"
               /\ mu' = "none"
               /\ woken' = FALSE
               /\ UNCHANGED <<pending, cur, scanStamp, result>>
          ELSE /\ cur' = Take(pending).task
               /\ pending' = Take(pending).rest
               /\ pc' = IF Take(pending).task.kind = "injest" THEN "scan" ELSE "thumb"
               /\ scanStamp' = fsChanges
               /\ result' = "none"
               /\ UNCHANGED <<woken, mu>>
    /\ UNCHANGED <<fs, disk, tmp, nextSeq, submits, qin, cancelled, cancelSeq, overrideVars, callVars, playVars,
                   localVars, timeVars, markVars, fsChanges, lastPub>>

\* for len(i.pending) == 0 { i.cond.Wait() }, then the pop and the unlock
RunCheck ==
    /\ pc = "check"
    /\ mu' = "none"
    /\ IF pending = <<>>
          THEN /\ pc' = "waiting"
               /\ woken' = FALSE
               /\ UNCHANGED <<pending, cur, scanStamp, result>>
          ELSE /\ cur' = Take(pending).task
               /\ pending' = Take(pending).rest
               /\ pc' = IF Take(pending).task.kind = "injest" THEN "scan" ELSE "thumb"
               /\ scanStamp' = fsChanges
               /\ result' = "none"
               /\ UNCHANGED woken
    /\ UNCHANGED <<fs, disk, tmp, nextSeq, submits, qin, cancelled, cancelSeq, overrideVars, callVars, playVars,
                   localVars, timeVars, markVars, fsChanges, lastPub>>

\* cond.Wait returns: signalled, and the lock taken again
RunWake ==
    /\ pc = "waiting"
    /\ woken
    /\ mu = "none"
    /\ mu' = "worker"
    /\ woken' = FALSE
    /\ pc' = "check"
    /\ UNCHANGED <<fs, disk, tmp, pending, nextSeq, submits, qin, cancelled, cancelSeq, overrideVars, callVars, playVars,
                   cur,
                   localVars, timeVars, markVars, fsChanges, scanStamp, result, lastPub>>

\* Process, lines 487-522
Scan ==
    /\ pc = "scan"
    /\ IF DirOf(absPath(cur)).exists
          THEN /\ scan' = ScanDir(DirOf(absPath(cur)).ents)
               /\ pc' = "load"
               /\ UNCHANGED <<info, loadedID, lookup, reqs, result>>
          ELSE Finish("err")
    /\ UNCHANGED <<fs, disk, tmp, queueVars, submits, qin, mu, cancelled, cancelSeq, overrideVars, callVars, playVars,
                   cur,
                   timeVars, markVars, fsChanges, scanStamp, lastPub>>

\* Process, lines 524-528
Load ==
    /\ pc = "load"
    /\ LET r == ReadInfo(FileOf(absPath(cur)), DirOf(absPath(cur))) IN
       IF r.err THEN Finish("err")
       ELSE /\ info' = r.info
            /\ loadedID' = r.info.AniListID
            /\ pc' = "gate"
            /\ UNCHANGED <<scan, lookup, reqs, result>>
    /\ UNCHANGED <<fs, disk, tmp, queueVars, submits, qin, mu, cancelled, cancelSeq, overrideVars, callVars, playVars,
                   cur,
                   timeVars, markVars, fsChanges, scanStamp, lastPub>>

\* the condition of line 530
GateOpen(task, i) ==
    task.Force \/ task.ID # i.AniListID \/ Cardinality(DOMAIN i.Seen) > 0

\* the force argument Process passes to requestInfo (lines 532-538)
RequestForce(task, i) ==
    IF task.ID # 0 THEN task.Force \/ i.AniListID # task.ID ELSE task.Force

\* a skip that takes only a positive id for an answer
AlreadyFetchedPositive(i, force) == i.AniListID > 0 /\ ~force

\* requestInfo, line 105: nothing to fetch
AlreadyFetched(i, force) == i.AniListID # 0 /\ ~force

\* Process lines 530-538 and requestInfo lines 103-111
CatalogGate ==
    /\ pc = "gate"
    /\ LET open == GateOpen(cur, info)
           i1 == IF open /\ cur.ID # 0 THEN [info EXCEPT !.AniListID = cur.ID] ELSE info
       IN  /\ info' = i1
           /\ IF open /\ ~AlreadyFetched(i1, RequestForce(cur, info))
                 THEN /\ pc' = "request"
                      /\ deadline' = clock + RateLimitSeconds
                      /\ starts' = [n |-> starts.n + 1,
                                    first |-> IF starts.n = 0 THEN clock ELSE starts.first,
                                    prev |-> starts.last,
                                    last |-> clock]
                 ELSE /\ pc' = "tsgate"
                      /\ UNCHANGED <<deadline, starts>>
           /\ lookup' = IF open /\ AlreadyFetched(i1, RequestForce(cur, info))
                            THEN "skipped" ELSE lookup
    /\ UNCHANGED <<fs, disk, tmp, queueVars, submits, qin, mu, cancelled, cancelSeq, overrideVars, callVars, playVars,
                   cur, scan,
                   loadedID, reqs, clock, markVars, fsChanges, scanStamp, result, lastPub>>

\* what the request of requestInfo can end in: an error before the answer is
\* decoded, no media, media found, media found and the cover image failing;
\* a cancelled context fails the request
Outcomes == IF cancelled THEN {"error"} ELSE {"error", "none", "found", "cover"}

\* requestInfo lines 114-139: the query that is sent
QueryKind(i, byID) == IF byID /\ i.AniListID # 0 THEN "id" ELSE "search"

\* requestInfo lines 171-216 on the decoded answer
ApplyOutcome(i, outcome, byID) ==
    IF outcome = "error" THEN i
    ELSE IF outcome = "none" THEN [i EXCEPT !.changed = TRUE, !.AniListID = -1]
    ELSE [i EXCEPT !.changed = TRUE,
                   !.AniListID = IF QueryKind(i, byID) = "id" THEN i.AniListID ELSE SearchID]

\* requestInfo lines 112-228: the HTTP exchange with AniList
Request ==
    /\ pc = "request"
    /\ \E outcome \in Outcomes :
          /\ info' = ApplyOutcome(info, outcome, cur.ID # 0)
          /\ lookup' = outcome
    /\ reqs' = reqs + 1
    /\ pc' = "timer"
    /\ UNCHANGED <<fs, disk, tmp, queueVars, submits, qin, mu, cancelled, cancelSeq, overrideVars, callVars, playVars,
                   cur, scan,
                   loadedID, timeVars, markVars, fsChanges, scanStamp, result, lastPub>>

\* a requestInfo that does not wait for its timer
TimerIgnored == TRUE

\* requestInfo line 230: <-timeout
TimerFired == clock >= deadline

RateLimitWait ==
    /\ pc = "timer"
    /\ TimerFired
    /\ pc' = "tsgate"
    /\ UNCHANGED <<fs, disk, tmp, queueVars, submits, qin, mu, cancelled, cancelSeq, overrideVars, callVars, playVars,
                   cur,
                   localVars, timeVars, markVars, fsChanges, scanStamp, result, lastPub>>

\* a gate that submits the thumbnails of every ingest
TimestampGateUngated ==
    /\ pc = "tsgate"
    /\ info' = IF cur.Force \/ After(scan.lastTime, info.Timestamp)
                  THEN [info EXCEPT !.changed = TRUE, !.Timestamp = scan.lastTime]
                  ELSE info
    /\ Submit([k \in 1..Len(scan.files) |->
                  ThumbTask(Join(absPath(cur), scan.files[k]))])
    /\ pc' = "children"
    /\ UNCHANGED <<fs, disk, tmp, submits, qin, mu, cancelled, cancelSeq, overrideVars, callVars, playVars,
                   cur, scan, loadedID, lookup, reqs,
                   timeVars, markVars, fsChanges, scanStamp, result, lastPub>>

\* Process lines 543-553
TimestampGate ==
    /\ pc = "tsgate"
    /\ IF cur.Force \/ After(scan.lastTime, info.Timestamp)
          THEN /\ info' = [info EXCEPT !.changed = TRUE, !.Timestamp = scan.lastTime]
               /\ Submit([k \in 1..Len(scan.files) |->
                             ThumbTask(Join(absPath(cur), scan.files[k]))])
          ELSE UNCHANGED <<info, queueVars>>
    /\ pc' = "children"
    /\ UNCHANGED <<fs, disk, tmp, submits, qin, mu, cancelled, cancelSeq, overrideVars, callVars, playVars,
                   cur, scan, loadedID, lookup, reqs,
                   timeVars, markVars, fsChanges, scanStamp, result, lastPub>>

\* the orders in which range may visit the keys of a map
Orderings(S) ==
    {o \in [1..Cardinality(S) -> S] : \A a, b \in 1..Cardinality(S) : a # b => o[a] # o[b]}

\* children that inherit the id and the force of the parent task
ChildReconcileInheriting ==
    /\ pc = "children"
    /\ LET inj == Restrict(info.Injested, DOMAIN scan.directories)
           need == {c \in DOMAIN scan.directories :
                       After(scan.directories[c], IF c \in DOMAIN inj THEN inj[c] ELSE 0)}
       IN  /\ info' = [info EXCEPT !.Injested = inj,
                                   !.changed = info.changed \/ need # {}]
           /\ \E order \in Orderings(need) :
                 Submit([k \in 1..Len(order) |->
                            InjestTask(Join(cur.path, order[k]), cur.ID, cur.Force)])
    /\ pc' = "publish"
    /\ UNCHANGED <<fs, disk, tmp, submits, qin, mu, cancelled, cancelSeq, overrideVars, callVars, playVars,
                   cur, scan, loadedID, lookup, reqs,
                   timeVars, markVars, fsChanges, scanStamp, result, lastPub>>

\* Process lines 555-571
ChildReconcile ==
    /\ pc = "children"
    /\ LET inj == Restrict(info.Injested, DOMAIN scan.directories)
           need == {c \in DOMAIN scan.directories :
                       After(scan.directories[c], IF c \in DOMAIN inj THEN inj[c] ELSE 0)}
       IN  /\ info' = [info EXCEPT !.Injested = inj,
                                   !.changed = info.changed \/ need # {}]
           /\ \E order \in Orderings(need) :
                 Submit([k \in 1..Len(order) |->
                            InjestTask(Join(cur.path, order[k]), 0, FALSE)])
    /\ pc' = "publish"
    /\ UNCHANGED <<fs, disk, tmp, submits, qin, mu, cancelled, cancelSeq, overrideVars, callVars, playVars,
                   cur, scan, loadedID, lookup, reqs,
                   timeVars, markVars, fsChanges, scanStamp, result, lastPub>>

\* Process lines 573-579: the timestamp the sidecar is published with
PublishTimestamp(i) ==
    Max(i.Timestamp, MaxOf({i.mtimes[n] : n \in DOMAIN i.mtimes}))

\* Process lines 573-588 and WriteInfo lines 140-146: os.CreateTemp
Publish ==
    /\ pc = "publish"
    /\ IF info.changed
          THEN \/ /\ info' = [info EXCEPT !.Timestamp = PublishTimestamp(info)]
                  /\ tmp' = [tmp EXCEPT !["worker"] = File("empty", Encode(EmptyInfo))]
                  /\ pc' = "wencode"
                  /\ UNCHANGED <<scan, loadedID, lookup, reqs, result>>
               \/ /\ Finish("err")
                  /\ UNCHANGED tmp
          ELSE /\ Finish("nil")
               /\ UNCHANGED tmp
    /\ UNCHANGED <<fs, disk, queueVars, submits, qin, mu, cancelled, cancelSeq, overrideVars, callVars, playVars,
                   cur,
                   timeVars, markVars, fsChanges, scanStamp, lastPub>>

\* a WriteInfo that encodes straight into .info.json
WorkerEncodeInPlace ==
    /\ pc = "wencode"
    /\ \/ /\ disk' = [disk EXCEPT ![absPath(cur)] = File("full", Encode(info))]
          /\ tmp' = [tmp EXCEPT !["worker"] = File("full", Encode(info))]
          /\ pc' = "wrename"
          /\ UNCHANGED <<localVars, result>>
       \/ /\ disk' = [disk EXCEPT ![absPath(cur)] = File("partial", Encode(info))]
          /\ tmp' = [tmp EXCEPT !["worker"] = NoFile]
          /\ Finish("err")
    /\ UNCHANGED <<fs, queueVars, submits, qin, mu, cancelled, cancelSeq, overrideVars, callVars, playVars,
                   cur,
                   timeVars, markVars, fsChanges, scanStamp, lastPub>>

\* WriteInfo lines 147-152: Encode and Close; on an error the deferred Remove runs
WorkerEncode ==
    /\ pc = "wencode"
    /\ \/ /\ tmp' = [tmp EXCEPT !["worker"] = File("full", Encode(info))]
          /\ pc' = "wrename"
          /\ UNCHANGED <<localVars, result>>
       \/ /\ tmp' = [tmp EXCEPT !["worker"] = NoFile]
          /\ Finish("err")
    /\ UNCHANGED <<fs, disk, queueVars, submits, qin, mu, cancelled, cancelSeq, overrideVars, callVars, playVars,
                   cur,
                   timeVars, markVars, fsChanges, scanStamp, lastPub>>

\* WriteInfo lines 153-157: os.Rename over .info.json
WorkerRename ==
    /\ pc = "wrename"
    /\ \/ /\ disk' = [disk EXCEPT ![absPath(cur)] = tmp["worker"]]
          /\ lastPub' = [dir |-> absPath(cur), data |-> tmp["worker"].data]
          /\ Finish("nil")
       \/ /\ Finish("err")
          /\ UNCHANGED <<disk, lastPub>>
    /\ tmp' = [tmp EXCEPT !["worker"] = NoFile]
    /\ UNCHANGED <<fs, queueVars, submits, qin, mu, cancelled, cancelSeq, overrideVars, callVars, playVars,
                   cur,
                   timeVars, markVars, fsChanges, scanStamp>>

\* createThumbnail.Process: thumbnail.Create fails under a cancelled context
Thumbnail ==
    /\ pc = "thumb"
    /\ \E ok \in (IF cancelled THEN {FALSE} ELSE BOOLEAN) :
          Finish(IF ok THEN "nil" ELSE "err")
    /\ UNCHANGED <<fs, disk, tmp, queueVars, submits, qin, mu, cancelled, cancelSeq, overrideVars, callVars, playVars,
                   cur,
                   timeVars, markVars, fsChanges, scanStamp, lastPub>>

(***************************************************************************)
(* The HTTP mark handler (ServeMark).                                      *)
(***************************************************************************)
NoMark ==
    [ok |-> FALSE, dir |-> <<>>, base |-> <<>>, query |-> "", state |-> FALSE, status |-> 0]

\* strconv.ParseBool(req.URL.RawQuery)
ParseBool(q) ==
    IF q \in {"1", "t", "T", "TRUE", "true", "True"} THEN [ok |-> TRUE, value |-> TRUE]
    ELSE IF q \in {"0", "f", "F", "FALSE", "false", "False"} THEN [ok |-> TRUE, value |-> FALSE]
    ELSE [ok |-> FALSE, value |-> FALSE]

MarkRequest(dir, base, query) ==
    [ok |-> FALSE, dir |-> dir, base |-> base, query |-> query,
     state |-> ParseBool(query).value, status |-> 0]

\* the request is answered with the status; ok against 200
Answered(req, status) == [req EXCEPT !.ok = (status = 200), !.status = status]

workerVars == <<pc, cur, scan, info, loadedID, lookup, reqs, scanStamp, result, lastPub>>

\* the Mark requests made: on a.mkv of S, with a query that does not parse, and
\* on a regular file that is no media file
MarkInputs ==
    { MarkRequest(SDir, NameA, "true"), MarkRequest(SDir, NameA, "0"),
      MarkRequest(SDir, NameA, "yes"), MarkRequest(Root, NameTxt, "true") }

\* ServeMark lines 13-38: getPath finds a regular file, the query parses
MarkStart ==
    /\ mpc = "idle"
    /\ pc # "crashed"
    /\ marks < MaxMarks
    /\ marks' = marks + 1
    /\ \E req \in MarkInputs :
          /\ mreq' = req
          /\ IF /\ req.base \in DOMAIN fs[req.dir].ents
                /\ fs[req.dir].ents[req.base].kind = "file"
                /\ ParseBool(req.query).ok
                THEN mpc' = "read" /\ UNCHANGED lastMark
                ELSE mpc' = "idle" /\ lastMark' = Answered(req, 400)
    /\ UNCHANGED <<fs, disk, tmp, queueVars, submits, qin, mu, cancelled, cancelSeq,
                   overrideVars, callVars, playVars, workerVars, timeVars, minfo, fsChanges>>

\* ServeMark lines 40-54, and os.CreateTemp of WriteInfo
MarkRead ==
    /\ mpc = "read"
    /\ LET r == ReadInfoStored(disk[mreq.dir]) IN
       IF r.err \/ mreq.base \notin DOMAIN r.info.Seen
          THEN /\ mpc' = "idle"
               /\ lastMark' = Answered(mreq, IF r.err THEN 500 ELSE 404)
               /\ UNCHANGED <<minfo, tmp>>
          ELSE \/ /\ minfo' = [r.info EXCEPT !.Seen[mreq.base] = mreq.state]
                  /\ tmp' = [tmp EXCEPT !["mark"] = File("empty", Encode(EmptyInfo))]
                  /\ mpc' = "wencode"
                  /\ UNCHANGED lastMark
               \/ /\ mpc' = "idle"
                  /\ lastMark' = Answered(mreq, 500)
                  /\ UNCHANGED <<minfo, tmp>>
    /\ UNCHANGED <<fs, disk, queueVars, submits, qin, mu, cancelled, cancelSeq,
                   overrideVars, callVars, playVars, workerVars, timeVars, mreq, marks, fsChanges>>

\* WriteInfo lines 147-152 for the handler
MarkEncode ==
    /\ mpc = "wencode"
    /\ \/ /\ tmp' = [tmp EXCEPT !["mark"] = File("full", Encode(minfo))]
          /\ mpc' = "wrename"
          /\ UNCHANGED <<minfo, lastMark>>
       \/ /\ tmp' = [tmp EXCEPT !["mark"] = NoFile]
          /\ mpc' = "idle"
          /\ minfo' = EmptyInfo
          /\ lastMark' = Answered(mreq, 500)
    /\ UNCHANGED <<fs, disk, queueVars, submits, qin, mu, cancelled, cancelSeq,
                   overrideVars, callVars, playVars, workerVars, timeVars, mreq, marks, fsChanges>>

\* WriteInfo lines 153-157 for the handler; the request is answered 200
MarkRename ==
    /\ mpc = "wrename"
    /\ \/ /\ disk' = [disk EXCEPT ![mreq.dir] = tmp["mark"]]
          /\ lastMark' = Answered(mreq, 200)
       \/ /\ lastMark' = Answered(mreq, 500)
          /\ UNCHANGED disk
    /\ tmp' = [tmp EXCEPT !["mark"] = NoFile]
    /\ mpc' = "idle"
    /\ minfo' = EmptyInfo
    /\ UNCHANGED <<fs, queueVars, submits, qin, mu, cancelled, cancelSeq,
                   overrideVars, callVars, playVars, workerVars, timeVars, mreq, marks, fsChanges>>

(***************************************************************************)
(* The HTTP override handler (ServeOverride).                              *)
(***************************************************************************)
\* the decoded body of the request, on the directory given relative to the root
OverrideRequest(dir, id, force, mark) ==
    [dir |-> dir, ID |-> id, Force |-> force, Mark |-> mark]

\* the Override requests made, all on S: mark alone, mark with force, an id,
\* and an empty body
OverrideInputs ==
    { OverrideRequest(NameS, 0, FALSE, TRUE), OverrideRequest(NameS, 0, TRUE, TRUE),
      OverrideRequest(NameS, 99, FALSE, FALSE), OverrideRequest(NameS, 0, FALSE, FALSE) }

fullPath(req) == Join(Root, req.dir)

\* ServeOverride lines 69-90: what becomes of the seen map, and whether
\* WriteInfo is called
Collapse(seen) ==
    LET hasTrue == \E k \in DOMAIN seen : seen[k]
        hasFalse == \E k \in DOMAIN seen : ~seen[k]
    IN  IF hasTrue /\ hasFalse THEN [write |-> FALSE, seen |-> seen]
        ELSE [write |-> TRUE, seen |-> [k \in DOMAIN seen |-> ~hasTrue]]

\* an override that queues only for a new id
NeedsQueueForID(req, existingID) == req.ID # existingID

\* ServeOverride line 114
NeedsQueue(req, existingID) == req.ID # existingID \/ req.Force

\* the answer to the served request
OverrideAnswer(status, queued) == [n |-> overrides, status |-> status, queued |-> queued]

\* ServeOverride lines 14-59: getPath finds a directory, the body decodes
OverrideStart ==
    /\ opc = "idle"
    /\ pc # "crashed"
    /\ overrides < MaxOverrides
    /\ overrides' = overrides + 1
    /\ \E req \in OverrideInputs : oreq' = req
    /\ opc' = IF oreq'.Mark THEN "read" ELSE "id"
    /\ UNCHANGED <<fs, disk, tmp, queueVars, submits, qin, mu, cancelled, cancelSeq,
                   callVars, playVars, workerVars, timeVars, markVars, fsChanges,
                   oinfo, lastOverride, olog>>

\* ServeOverride lines 61-90, and os.CreateTemp of WriteInfo
OverrideRead ==
    /\ opc = "read"
    /\ LET r == ReadInfo(disk[fullPath(oreq)], fs[fullPath(oreq)])
           c == Collapse(r.info.Seen)
       IN  IF r.err
              THEN /\ opc' = "idle"
                   /\ lastOverride' = OverrideAnswer(500, FALSE)
                   /\ UNCHANGED <<oinfo, tmp, olog>>
              ELSE /\ oinfo' = [r.info EXCEPT !.Seen = c.seen]
                   /\ olog' = Append(olog, [before |-> r.info.Seen, after |-> c.seen,
                                            written |-> FALSE])
                   /\ IF c.write
                         THEN \/ /\ tmp' = [tmp EXCEPT !["override"] =
                                               File("empty", Encode(EmptyInfo))]
                                 /\ opc' = "wencode"
                                 /\ UNCHANGED lastOverride
                              \/ /\ opc' = "idle"
                                 /\ lastOverride' = OverrideAnswer(500, FALSE)
                                 /\ UNCHANGED tmp
                         ELSE /\ opc' = "id"
                              /\ UNCHANGED <<tmp, lastOverride>>
    /\ UNCHANGED <<fs, disk, queueVars, submits, qin, mu, cancelled, cancelSeq,
                   callVars, playVars, workerVars, timeVars, markVars, fsChanges,
                   oreq, overrides>>

\* WriteInfo lines 147-152 for the handler
OverrideEncode ==
    /\ opc = "wencode"
    /\ \/ /\ tmp' = [tmp EXCEPT !["override"] = File("full", Encode(oinfo))]
          /\ opc' = "wrename"
          /\ UNCHANGED lastOverride
       \/ /\ tmp' = [tmp EXCEPT !["override"] = NoFile]
          /\ opc' = "idle"
          /\ lastOverride' = OverrideAnswer(500, FALSE)
    /\ UNCHANGED <<fs, disk, queueVars, submits, qin, mu, cancelled, cancelSeq,
                   callVars, playVars, workerVars, timeVars, markVars, fsChanges,
                   oreq, oinfo, overrides, olog>>

\* WriteInfo lines 153-157 for the handler
OverrideRename ==
    /\ opc = "wrename"
    /\ \/ /\ disk' = [disk EXCEPT ![fullPath(oreq)] = tmp["override"]]
          /\ olog' = [olog EXCEPT ![Len(olog)].written = TRUE]
          /\ opc' = "id"
          /\ UNCHANGED lastOverride
       \/ /\ opc' = "idle"
          /\ lastOverride' = OverrideAnswer(500, FALSE)
          /\ UNCHANGED <<disk, olog>>
    /\ tmp' = [tmp EXCEPT !["override"] = NoFile]
    /\ UNCHANGED <<fs, queueVars, submits, qin, mu, cancelled, cancelSeq,
                   callVars, playVars, workerVars, timeVars, markVars, fsChanges,
                   oreq, oinfo, overrides>>

\* ServeOverride lines 100-112: the id the sidecar holds, read now unless the
\* mark part read it
ExistingID ==
    IF oreq.ID = 0 THEN [err |-> FALSE, id |-> 0]
    ELSE IF oreq.Mark THEN [err |-> FALSE, id |-> oinfo.AniListID]
    ELSE LET r == ReadInfoStored(disk[fullPath(oreq)])
         IN  [err |-> r.err, id |-> r.info.AniListID]

\* ServeOverride lines 100-121: the ingest is queued if need be, 202 answered
OverrideQueue ==
    /\ opc = "id"
    /\ opc' = "idle"
    /\ IF ExistingID.err
          THEN /\ lastOverride' = OverrideAnswer(500, FALSE)
               /\ UNCHANGED queueVars
          ELSE /\ lastOverride' = OverrideAnswer(202, NeedsQueue(oreq, ExistingID.id))
               /\ IF NeedsQueue(oreq, ExistingID.id)
                     THEN QueueCall(Options(oreq.dir, oreq.ID, oreq.Force))
                     ELSE UNCHANGED queueVars
    /\ UNCHANGED <<fs, disk, tmp, submits, qin, mu, cancelled, cancelSeq,
                   callVars, playVars, workerVars, timeVars, markVars, fsChanges,
                   oreq, oinfo, overrides, olog>>

(***************************************************************************)
(* The environment: submissions, cancellation, the user changing the       *)
(* library, the process dying, time.                                       *)
(***************************************************************************)
SRel == NameS
EscapeRel == <<".", ".", "/", "m", "x">>
OverrideID == 99

\* the submissions made to the running Injester
QueueInputs ==
    { Options(DotStr, 0, FALSE), Options(SRel, 0, FALSE), Options(SRel, 0, TRUE),
      Options(SRel, OverrideID, FALSE), Options(EscapeRel, 0, FALSE) }

\* the submissions that always contact the catalog
RateInputs == { Options(DotStr, 0, TRUE), Options(SRel, 0, TRUE) }

\* an HTTP handler or the startup seed calls Injester.Queue
QueueFrom(inputs) ==
    /\ pc # "crashed"
    /\ submits < MaxSubmits
    /\ submits' = submits + 1
    /\ \E opts \in inputs : QueueCall(opts)
    /\ UNCHANGED <<fs, disk, tmp, qin, mu, cancelled, cancelSeq, overrideVars, callVars, playVars,
                   pc, cur, localVars, timeVars,
                   markVars, fsChanges, scanStamp, result, lastPub>>

ExtQueue == QueueFrom(QueueInputs)

RateQueue == QueueFrom(RateInputs)

\* Queue called once with the drawn options, nothing else running
PathQueue ==
    /\ submits = 0
    /\ submits' = 1
    /\ QueueCall(qin)
    /\ UNCHANGED <<fs, disk, tmp, qin, mu, cancelled, cancelSeq, overrideVars, callVars, playVars,
                   pc, cur, localVars, timeVars,
                   markVars, fsChanges, scanStamp, result, lastPub>>

Cancel ==
    /\ pc # "crashed"
    /\ ~cancelled
    /\ cancelled' = TRUE
    /\ cancelSeq' = nextSeq
    /\ UNCHANGED <<fs, disk, tmp, queueVars, submits, qin, mu, workerVars,
                   timeVars, markVars, fsChanges, overrideVars, callVars, playVars>>

\* the mtime of an entry changed now
Now == 4 + fsChanges

Touched(tree) == [tree EXCEPT ![Root].ents[NameS].mtime = Now]

\* the user adds b.MKV to S, removes a.mkv, or replaces a.mkv by a directory
FsChange ==
    /\ fsChanges < MaxFsChanges
    /\ fsChanges' = fsChanges + 1
    /\ LET ents == fs[SDir].ents IN
       \/ /\ NameB \notin DOMAIN ents
          /\ fs' = Touched([fs EXCEPT ![SDir].ents =
                               Extend(ents, {NameB}, Entry("file", Now))])
       \/ /\ NameA \in DOMAIN ents
          /\ fs' = Touched([fs EXCEPT
                               ![SDir].ents = Restrict(ents, (DOMAIN ents) \ {NameA}),
                               ![ADir].exists = FALSE])
       \/ /\ NameA \in DOMAIN ents
          /\ ents[NameA].kind = "file"
          /\ fs' = Touched([fs EXCEPT ![SDir].ents[NameA] = Entry("dir", Now),
                                      ![ADir].exists = TRUE])
    /\ UNCHANGED <<disk, tmp, queueVars, submits, qin, mu, cancelled, cancelSeq, overrideVars, callVars, playVars,
                   workerVars,
                   timeVars, markVars>>

\* the process dies while a sidecar is being written
Crash ==
    /\ pc \in {"wencode", "wrename"} \/ mpc \in {"wencode", "wrename"}
    /\ pc' = "crashed"
    /\ mpc' = "crashed"
    /\ UNCHANGED <<fs, disk, tmp, queueVars, submits, qin, mu, cancelled, cancelSeq, overrideVars, callVars, playVars,
                   cur,
                   localVars, timeVars, mreq, minfo, marks, lastMark, fsChanges,
                   scanStamp, result, lastPub>>

\* time passes until the timer of requestInfo fires
TimePasses ==
    /\ pc = "timer"
    /\ clock < deadline
    /\ clock' = deadline
    /\ UNCHANGED <<fs, disk, tmp, queueVars, submits, qin, mu, cancelled, cancelSeq, overrideVars, callVars, playVars,
                   workerVars,
                   deadline, starts, markVars, fsChanges>>

\* one second passes
Tick ==
    /\ clock < MaxClock
    /\ clock' = clock + 1
    /\ UNCHANGED <<fs, disk, tmp, queueVars, submits, qin, mu, cancelled, cancelSeq, overrideVars, callVars, playVars,
                   workerVars,
                   deadline, starts, markVars, fsChanges>>

(***************************************************************************)
(* The specifications.                                                     *)
(***************************************************************************)
Writers == {"worker", "mark", "override"}

\* the sidecar an earlier run leaves in S when AniList knew no such title
PriorS ==
    [Timestamp |-> 1, AniListID |-> -1,
     Seen |-> [n \in {NameA} |-> FALSE], Injested |-> NoEntries]

\* no Override request yet
NoOverride == [dir |-> <<>>, ID |-> 0, Force |-> FALSE, Mark |-> FALSE]
NoAnswer == [n |-> 0, status |-> 0, queued |-> FALSE]

\* no function applied on its own
NoArgs == [fn |-> "none"]

\* injest.New(root) and the server idle, before any request
Booted ==
    /\ fs = InitTree
    /\ tmp = [w \in Writers |-> NoFile]
    /\ pending = <<>>
    /\ nextSeq = 1
    /\ submits = 0
    /\ mu = "none"
    /\ woken = FALSE
    /\ cancelled = FALSE
    /\ cancelSeq = 0
    /\ pc = "select"
    /\ cur = NoTask
    /\ scan = NoScan
    /\ info = EmptyInfo
    /\ loadedID = 0
    /\ lookup = "none"
    /\ reqs = 0
    /\ clock = 0
    /\ deadline = 0
    /\ starts = NoStarts
    /\ mpc = "idle"
    /\ mreq = NoMark
    /\ minfo = EmptyInfo
    /\ marks = 0
    /\ lastMark = NoMark
    /\ fsChanges = 0
    /\ scanStamp = 0
    /\ result = "none"
    /\ lastPub = [dir |-> <<>>, data |-> Encode(EmptyInfo)]
    /\ opc = "idle"
    /\ oreq = NoOverride
    /\ oinfo = EmptyInfo
    /\ overrides = 0
    /\ lastOverride = NoAnswer
    /\ olog = <<>>
    /\ ret = <<>>
    /\ ch = <<>>
    /\ closed = FALSE
    /\ done = FALSE
    /\ waited = "none"
    /\ observed = FALSE
    /\ playlist = "absent"
    /\ lerr = "none"
    /\ ppc = "idle"
    /\ wpc = "idle"
    /\ cpc = "idle"

\* the tree as found: fresh, or with the sidecar an earlier run left in S
Init ==
    /\ Booted
    /\ disk \in {[d \in Dirs |-> NoFile],
                 [d \in Dirs |-> IF d = SDir THEN File("full", PriorS) ELSE NoFile]}
    /\ qin = Options(DotStr, 0, FALSE)
    /\ args = NoArgs

WorkerNext ==
    \/ RunSelect \/ RunLock \/ RunCheck \/ RunWake
    \/ Scan \/ Load \/ CatalogGate \/ Request \/ RateLimitWait
    \/ TimestampGate \/ ChildReconcile \/ Publish \/ WorkerEncode \/ WorkerRename
    \/ Thumbnail

MarkNext == MarkStart \/ MarkRead \/ MarkEncode \/ MarkRename

\* the ingester: submissions, the worker, cancellation, the library changing
Next ==
    \/ ExtQueue \/ Cancel \/ FsChange \/ TimePasses
    \/ WorkerNext

Spec == Init /\ [][Next]_vars

\* the worker beside the mark handler, either of which may die while writing
MarkSpecNext ==
    \/ ExtQueue \/ TimePasses \/ Crash
    \/ WorkerNext \/ MarkNext

SpecMark == Init /\ [][MarkSpecNext]_vars

\* the worker under a wall clock
RateNext ==
    \/ RateQueue \/ Cancel \/ Tick
    \/ WorkerNext

SpecRate == Init /\ [][RateNext]_vars

OverrideNext == OverrideStart \/ OverrideRead \/ OverrideEncode \/ OverrideRename \/ OverrideQueue

\* doInjest: the root is queued once when the server starts
SeedQueue ==
    /\ submits = 0
    /\ QueueFrom({Options(DotStr, 0, FALSE)})

\* the worker on the startup ingest beside the override handler
OverrideSpecNext ==
    \/ SeedQueue \/ TimePasses
    \/ WorkerNext \/ OverrideNext

SpecOverride == Init /\ [][OverrideSpecNext]_vars

\* the tree as found with the sidecar of S intact, or cut short by an earlier
\* crash of another writer
CorruptInit ==
    /\ Booted
    /\ disk \in {[d \in Dirs |-> IF d = SDir THEN File(b, PriorS) ELSE NoFile] :
                    b \in {"full", "partial"}}
    /\ qin = Options(DotStr, 0, FALSE)
    /\ args = NoArgs

\* the worker on the startup ingest beside one request to either handler
CorruptNext ==
    \/ SeedQueue \/ TimePasses
    \/ WorkerNext
    \/ (marks + overrides = 0 /\ (MarkStart \/ OverrideStart))
    \/ MarkRead \/ MarkEncode \/ MarkRename
    \/ OverrideRead \/ OverrideEncode \/ OverrideRename \/ OverrideQueue

SpecCorrupt == CorruptInit /\ [][CorruptNext]_vars

\* the library changes before the server starts and no more afterwards; the
\* seed is queued, then requests queue ingests
ConvergeNext ==
    \/ (submits = 0 /\ FsChange)
    \/ SeedQueue
    \/ (submits > 0 /\ ExtQueue)
    \/ TimePasses
    \/ WorkerNext

\* the worker goroutine and the seeding goroutine are scheduled and timers
\* fire: every step of Run and of Process is weakly fair.  Scan, Load,
\* TimestampGate, ChildReconcile and WorkerRename are enabled exactly at their
\* position and leave it, so their weak fairness is that the worker is
\* infinitely often away from the position.
SpecConverge ==
    /\ Init /\ [][ConvergeNext]_vars
    /\ WF_vars(SeedQueue) /\ WF_vars(TimePasses)
    /\ WF_vars(RunSelect) /\ WF_vars(RunLock) /\ WF_vars(RunCheck) /\ WF_vars(RunWake)
    /\ WF_vars(CatalogGate) /\ WF_vars(Request) /\ WF_vars(RateLimitWait)
    /\ WF_vars(Publish) /\ WF_vars(WorkerEncode) /\ WF_vars(Thumbnail)
    /\ \A p \in {"scan", "load", "tsgate", "children", "wrename"} : []<>(pc # p)

\* Queue alone, on every short path
PathAlphabet == {"/", ".", "m", "x"}
PathInputs == UNION {[1..n -> PathAlphabet] : n \in 0..MaxPathLen}

PathInit ==
    /\ Booted
    /\ disk = [d \in Dirs |-> NoFile]
    /\ qin \in {Options(p, id, f) : p \in PathInputs, id \in {0, OverrideID}, f \in BOOLEAN}
    /\ args = NoArgs

PathNext == PathQueue

SpecPath == PathInit /\ [][PathNext]_vars

(***************************************************************************)
(* ReadInfo applied on its own to a directory and a stored sidecar.        *)
(***************************************************************************)
NameMarker == <<".", "a", ".", "m", "k", "v", ".", "s", "e", "e", "n">>

\* the kinds an entry of the directory may have; "no" for no such entry
EntryKinds ==
    [n \in {NameA, NameS, NameEaDir, NameMarker, NameTxt} |->
        IF n = NameA THEN {"no", "file", "dir"}
        ELSE IF n \in {NameS, NameEaDir} THEN {"no", "dir"}
        ELSE {"no", "file"}]

\* the directories ReadInfo is applied to
DirInputs ==
    {[exists |-> TRUE,
      ents |-> [n \in {m \in DOMAIN k : k[m] # "no"} |-> Entry(k[n], 1)]] :
        k \in {f \in [DOMAIN EntryKinds -> {"no", "file", "dir"}] :
                  \A n \in DOMAIN EntryKinds : f[n] \in EntryKinds[n]}}

\* the sidecars found in them: none, or one with some of the keys
FileInputs ==
    {NoFile} \cup
    {File("full", [Timestamp |-> 1, AniListID |-> 0, Seen |-> sn, Injested |-> ij]) :
        sn \in UNION {[ks -> BOOLEAN] : ks \in SUBSET {NameA, NameB}},
        ij \in {[ks \in kk |-> 0] : kk \in SUBSET {NameS, NameEaDir, NameA}}}

ReconcileInit ==
    /\ Booted
    /\ disk = [d \in Dirs |-> NoFile]
    /\ qin = Options(DotStr, 0, FALSE)
    /\ args \in {[fn |-> "ReadInfo", dir |-> d, file |-> f] :
                    d \in DirInputs, f \in FileInputs}

\* ReadInfo on the directory; the second time on the sidecar the first result
\* was stored as
CallReadInfo ==
    /\ args.fn = "ReadInfo"
    /\ Len(ret) < 2
    /\ LET file == IF ret = <<>> THEN args.file ELSE File("full", Encode(ret[1]))
       IN  ret' = Append(ret, ReadInfo(file, args.dir).info)
    /\ UNCHANGED <<fs, disk, tmp, queueVars, submits, qin, mu, cancelled, cancelSeq,
                   overrideVars, workerVars, timeVars, markVars, fsChanges, args, playVars>>

ReconcileNext == CallReadInfo

SpecReconcile == ReconcileInit /\ [][ReconcileNext]_vars

(***************************************************************************)
(* The listing: commonLength applied on its own.                           *)
(***************************************************************************)
\* the loop over offset of commonLength (lines 26-45), from this offset on
RECURSIVE commonLengthFrom(_, _, _)
commonLengthFrom(strs, isPrefix, offset) ==
    IF offset >= Len(strs[1]) THEN 0
    ELSE IF \E i \in 1..Len(strs) :
               \/ Len(strs[i]) = offset
               \/ /\ Len(strs[i]) > offset
                  /\ IF isPrefix
                        THEN strs[i][offset + 1] # strs[1][offset + 1]
                        ELSE strs[i][Len(strs[i]) - offset] # strs[1][Len(strs[1]) - offset]
         THEN offset
         ELSE commonLengthFrom(strs, isPrefix, offset + 1)

commonLength(strs, isPrefix) ==
    IF Len(strs) < 2 THEN 0 ELSE commonLengthFrom(strs, isPrefix, 0)

\* the file names commonLength is applied to
NameAlphabet == {"a", "b"}
NameInputs == UNION {[1..n -> NameAlphabet] : n \in 1..MaxNameLen}
ListInputs == UNION {[1..n -> NameInputs] : n \in 0..MaxNames}

\* the orders in which ranging over the seen map can yield its distinct keys
SeenOrders == {l \in ListInputs : \A i, j \in 1..Len(l) : l[i] = l[j] => i = j}

\* fileInput{Name, Title}
fileInput(name, title) == [Name |-> name, Title |-> title]

\* s[lo:hi] of Go, with its bounds check
Slice(str, lo, hi) ==
    IF lo > hi \/ hi > Len(str) \/ hi < 0
       THEN [panic |-> TRUE, str |-> <<>>]
       ELSE [panic |-> FALSE, str |-> SubSeq(str, lo + 1, hi)]

\* the byte order of the names' letters
Rank(c) == IF c = "a" THEN 1 ELSE 2

\* cmp.Compare(a, b) <= 0 on strings
RECURSIVE CompareLE(_, _)
CompareLE(a, b) ==
    IF a = <<>> THEN TRUE
    ELSE IF b = <<>> THEN FALSE
    ELSE IF Head(a) # Head(b) THEN Rank(Head(a)) < Rank(Head(b))
    ELSE CompareLE(Tail(a), Tail(b))

\* slices.SortFunc by Title: any sorted arrangement of the files (not stable)
SortedByTitle(files) ==
    {[i \in 1..Len(files) |-> files[p[i]]] :
        p \in {q \in [1..Len(files) -> 1..Len(files)] :
                  /\ \A i, j \in 1..Len(files) : q[i] = q[j] => i = j
                  /\ \A i \in 1..(Len(files) - 1) :
                        CompareLE(files[q[i]].Title, files[q[i + 1]].Title)}}

\* ServeListing lines 134-157: the files of the listing with their titles, in
\* the order of the template; panic when a slice is out of range
Titles(names) ==
    LET prefixLen == commonLength(names, TRUE)
        suffixLen == commonLength(names, FALSE)
        cut(n) == IF Len(names) > 1 THEN Slice(n, prefixLen, Len(n) - suffixLen)
                  ELSE [panic |-> FALSE, str |-> n]
    IN  IF \E i \in 1..Len(names) : cut(names[i]).panic
           THEN {<<<<>>, TRUE>>}
           ELSE {<<f, FALSE>> :
                    f \in SortedByTitle([i \in 1..Len(names) |->
                                            fileInput(names[i], cut(names[i]).str)])}

ListingInit ==
    /\ Booted
    /\ disk = [d \in Dirs |-> NoFile]
    /\ qin = Options(DotStr, 0, FALSE)
    /\ args \in {[fn |-> "commonLength", strings |-> l, isPrefix |-> b] :
                    l \in ListInputs, b \in BOOLEAN}
                 \cup {[fn |-> "titles", strings |-> l, isPrefix |-> FALSE] : l \in SeenOrders}

CallCommonLength ==
    /\ args.fn = "commonLength"
    /\ ret = <<>>
    /\ ret' = <<commonLength(args.strings, args.isPrefix)>>
    /\ UNCHANGED <<fs, disk, tmp, queueVars, submits, qin, mu, cancelled, cancelSeq,
                   overrideVars, workerVars, timeVars, markVars, fsChanges, args, playVars>>

\* the file part of ServeListing on a directory whose seen map has these keys
CallTitles ==
    /\ args.fn = "titles"
    /\ ret = <<>>
    /\ ret' \in Titles(args.strings)
    /\ UNCHANGED <<fs, disk, tmp, queueVars, submits, qin, mu, cancelled, cancelSeq,
                   overrideVars, workerVars, timeVars, markVars, fsChanges, args, playVars>>

ListingNext == CallCommonLength \/ CallTitles

SpecListing == ListingInit /\ [][ListingNext]_vars

(***************************************************************************)
(* The thumbnailer: createThumbnail.Process applied on its own to a video  *)
(* and the thumbnails beside it.                                           *)
(***************************************************************************)
\* time.Minute, in the unit durations are counted in here
Minute == 10

\* for t := from; t < limit; t += step { timeCodes = append(timeCodes, t) }
RECURSIVE Sample(_, _, _)
Sample(t, limit, step) ==
    IF t >= limit THEN <<>> ELSE <<t>> \o Sample(t + step, limit, step)

\* Create lines 23-36: the time codes frames are taken at; the loop of the
\* short branch never ends when duration / 5 is 0
TimeCodes(duration) ==
    IF duration > 10 * Minute
       THEN [diverges |-> FALSE,
             codes |-> Sample(2 * Minute, duration - 2 * Minute,
                              (duration - 4 * Minute) \div 5)]
       ELSE IF duration \div 5 = 0 /\ duration > 0
               THEN [diverges |-> TRUE, codes |-> <<>>]
               ELSE [diverges |-> FALSE, codes |-> Sample(0, duration, duration \div 5)]

\* how a call of the thumbnailer ends: its error, the time codes it took, and
\* the .webp it leaves
Created(err, tc, webp) ==
    [err |-> err, diverges |-> tc.diverges, timeCodes |-> tc.codes, webp |-> webp]

\* thumbnail.Create(ctx, videoPath, thumbnailPath) on a video of the duration,
\* with the .webp found ("none" or "old"): ffprobe fails; or no frame is got;
\* or os.WriteFile writes the best frame ("new"); or it fails and the path is
\* removed
Create(duration, webp) ==
    LET tc == TimeCodes(duration)
        none == [diverges |-> FALSE, codes |-> <<>>]
    IN  {Created(TRUE, none, webp)}
        \cup (IF tc.diverges THEN {Created(FALSE, tc, webp)}
              ELSE {Created(TRUE, tc, webp)}
                   \cup (IF tc.codes = <<>> THEN {}
                         ELSE {Created(FALSE, tc, "new"), Created(TRUE, tc, "none")}))

\* filepath.Split: the directory with its trailing separator, and the file
Split(path) ==
    LET seps == {i \in 1..Len(path) : path[i] = Sep}
        i == IF seps = {} THEN 0 ELSE CHOOSE k \in seps : \A j \in seps : j <= k
    IN  [parent |-> SubSeq(path, 1, i), base |-> SubSeq(path, i + 1, Len(path))]

\* filepath.Join(parent, fmt.Sprintf(".%s" + ext, base))
Beside(video, ext) ==
    Join(Split(video).parent, DotStr \o Split(video).base \o ext)

ExtWebp == <<".", "w", "e", "b", "p">>
ExtJpg == <<".", "j", "p", "g">>

\* createThumbnail.Process with the removal of the legacy .jpg before the
\* thumbnailer runs
ProcessRemovingFirst(video, duration, webp, jpg) ==
    {[created |-> c, jpg |-> FALSE,
      thumbPath |-> Beside(video, ExtWebp), jpgPath |-> Beside(video, ExtJpg)] :
        c \in Create(duration, webp)}

\* createThumbnail.Process lines 602-612: the legacy .jpg goes once Create
\* has returned without error
Process(video, duration, webp, jpg) ==
    {[created |-> c, jpg |-> (jpg /\ (c.err \/ c.diverges)),
      thumbPath |-> Beside(video, ExtWebp), jpgPath |-> Beside(video, ExtJpg)] :
        c \in Create(duration, webp)}

ThumbnailInit ==
    /\ Booted
    /\ disk = [d \in Dirs |-> NoFile]
    /\ qin = Options(DotStr, 0, FALSE)
    /\ args \in {[fn |-> "Process", absPath |-> a, duration |-> d, webp |-> w, jpg |-> j] :
                    a \in {ADir, Join(Root, NameB)}, d \in 0..MaxDuration,
                    w \in {"none", "old"}, j \in BOOLEAN}

CallProcess ==
    /\ args.fn = "Process"
    /\ ret = <<>>
    /\ \E r \in Process(args.absPath, args.duration, args.webp, args.jpg) : ret' = <<r>>
    /\ UNCHANGED <<fs, disk, tmp, queueVars, submits, qin, mu, cancelled, cancelSeq,
                   overrideVars, workerVars, timeVars, markVars, fsChanges, args, playVars>>

SpecThumbnail == ThumbnailInit /\ [][CallProcess]_vars

(***************************************************************************)
(* utils.CutLastString applied on its own.                                 *)
(***************************************************************************)
\* CutLast: for i := len(s) - 1; i > 0; i-- { if s[i] == sep { return s[:i], s[i+1:] } }
CutLast(s, sep) ==
    LET hits == {i \in 2..Len(s) : s[i] = sep} IN
    IF hits = {} THEN [panic |-> FALSE, pre |-> <<>>, post |-> s]
    ELSE LET i == CHOOSE k \in hits : \A j \in hits : j <= k
         IN  [panic |-> FALSE, pre |-> SubSeq(s, 1, i - 1), post |-> SubSeq(s, i + 1, Len(s))]

\* CutLastString: panics unless the separator is one byte
CutLastString(s, sep) ==
    IF Len(sep) # 1 THEN [panic |-> TRUE, pre |-> <<>>, post |-> <<>>]
    ELSE CutLast(s, sep[1])

CutLastInit ==
    /\ Booted
    /\ disk = [d \in Dirs |-> NoFile]
    /\ qin = Options(DotStr, 0, FALSE)
    /\ args \in {[fn |-> "CutLastString", s |-> str, sep |-> sep] :
                    str \in PathInputs, sep \in {<<Sep>>, DotStr, <<>>}}

CallCutLastString ==
    /\ args.fn = "CutLastString"
    /\ ret = <<>>
    /\ ret' = <<CutLastString(args.s, args.sep)>>
    /\ UNCHANGED <<fs, disk, tmp, queueVars, submits, qin, mu, cancelled, cancelSeq,
                   overrideVars, workerVars, timeVars, markVars, fsChanges, args, playVars>>

SpecCutLast == CutLastInit /\ [][CallCutLastString]_vars

(***************************************************************************)
(* The query of requestInfo, as Process calls it on a loaded sidecar.      *)
(***************************************************************************)
\* the ids a task carries and a sidecar holds
QueryIDs == {-5, -1, 0, 42, OverrideID}

NoQuery == [kind |-> "none", id |-> 0]

\* Process lines 530-538 and requestInfo lines 105-139: the request built for
\* a task on the sidecar ReadInfo returned
Query(task, loaded) ==
    LET open == GateOpen(task, loaded)
        i1 == IF task.ID # 0 THEN [loaded EXCEPT !.AniListID = task.ID] ELSE loaded
    IN  IF ~open \/ AlreadyFetched(i1, RequestForce(task, loaded)) THEN NoQuery
        ELSE [kind |-> QueryKind(i1, task.ID # 0),
              id |-> IF QueryKind(i1, task.ID # 0) = "id" THEN i1.AniListID ELSE 0]

QueryInit ==
    /\ Booted
    /\ disk = [d \in Dirs |-> NoFile]
    /\ qin = Options(DotStr, 0, FALSE)
    /\ args \in {[fn |-> "requestInfo",
                   task |-> InjestTask(SDir, id, force),
                   loaded |-> [EmptyInfo EXCEPT !.AniListID = stored, !.Seen = seen]] :
                    id \in QueryIDs, force \in BOOLEAN, stored \in QueryIDs,
                    seen \in {NoEntries, [n \in {NameA} |-> FALSE]}}

CallRequestInfo ==
    /\ args.fn = "requestInfo"
    /\ ret = <<>>
    /\ ret' = <<Query(args.task, args.loaded)>>
    /\ UNCHANGED <<fs, disk, tmp, queueVars, submits, qin, mu, cancelled, cancelSeq,
                   overrideVars, workerVars, timeVars, markVars, fsChanges, args, playVars>>

SpecQuery == QueryInit /\ [][CallRequestInfo]_vars

(***************************************************************************)
(* The Chinese title: getChineseTitle on a WikiData answer.                *)
(***************************************************************************)
\* one row of the SPARQL answer: the zh label and the two database ids, each
\* the empty string when the row does not bind it
Bindings == [label : {"", "label"}, bangumi : {"", "b1"}, bahamut : {"", "h1"}]

\* the answers of WikiData: a failed request or up to two rows
WikiDataAnswers ==
    {[err |-> TRUE, rows |-> <<>>]}
        \cup {[err |-> FALSE, rows |-> r] :
                 r \in {<<>>} \cup {<<b>> : b \in Bindings}
                          \cup {<<b, c>> : b, c \in Bindings}}

\* getChineseTitle lines 451-471: the loop over the rows; bangumiErr and
\* bahamutErr tell whether getBangumiTitle and getBahamutTitle fail
RECURSIVE firstTitle(_, _, _)
firstTitle(rows, bangumiErr, bahamutErr) ==
    IF rows = <<>> THEN [err |-> TRUE, title |-> ""]
    ELSE LET binding == Head(rows) IN
         IF binding.label # "" THEN [err |-> FALSE, title |-> binding.label]
         ELSE IF binding.bangumi # "" /\ ~bangumiErr
                 THEN [err |-> FALSE, title |-> "bangumi"]
         ELSE IF binding.bahamut # "" /\ ~bahamutErr
                 THEN [err |-> FALSE, title |-> "bahamut"]
         ELSE firstTitle(Tail(rows), bangumiErr, bahamutErr)

\* getChineseTitle lines 425-474
getChineseTitle(answer, bangumiErr, bahamutErr) ==
    IF answer.err THEN [err |-> TRUE, title |-> ""]
    ELSE firstTitle(answer.rows, bangumiErr, bahamutErr)

\* requestInfo lines 220-227: the title is stored when there was no error, and
\* requestInfo returns nil either way
StoreChineseTitle(previous, got) ==
    [err |-> FALSE, ChineseTitle |-> IF got.err THEN previous ELSE got.title]

ChineseInit ==
    /\ Booted
    /\ disk = [d \in Dirs |-> NoFile]
    /\ qin = Options(DotStr, 0, FALSE)
    /\ args \in {[fn |-> "getChineseTitle", answer |-> a, bangumiErr |-> e1,
                   bahamutErr |-> e2, previous |-> prev] :
                    a \in WikiDataAnswers, e1 \in BOOLEAN, e2 \in BOOLEAN,
                    prev \in {"", "old"}}

CallGetChineseTitle ==
    /\ args.fn = "getChineseTitle"
    /\ ret = <<>>
    /\ ret' = <<StoreChineseTitle(args.previous,
                    getChineseTitle(args.answer, args.bangumiErr, args.bahamutErr))>>
    /\ UNCHANGED <<fs, disk, tmp, queueVars, submits, qin, mu, cancelled, cancelSeq,
                   overrideVars, workerVars, timeVars, markVars, fsChanges, args, playVars>>

SpecChinese == ChineseInit /\ [][CallGetChineseTitle]_vars

(***************************************************************************)
(* PackageForStreaming: one call of waitForPlaylist on a started ffmpeg.   *)
(***************************************************************************)
restVars == <<fs, disk, tmp, queueVars, submits, qin, mu, cancelled, cancelSeq,
              overrideVars, workerVars, timeVars, markVars, fsChanges, callVars>>

\* ffmpeg.go 128-131, 139: make(chan bool, 1) and the two go statements
WaitStart ==
    /\ args.fn = "waitForPlaylist"
    /\ cpc = "idle"
    /\ cpc' = "recv" /\ ppc' = "lstat" /\ wpc' = "wait"
    /\ UNCHANGED <<restVars, ch, closed, done, waited, observed, playlist, lerr>>

\* ffmpeg writes out.mpd while it runs
FfmpegWrites ==
    /\ wpc = "wait"
    /\ playlist = "absent"
    /\ playlist' = "present"
    /\ UNCHANGED <<restVars, ch, closed, done, waited, observed, lerr, ppc, wpc, cpc>>

\* what os.Lstat(playlistPath) can return: nil, fs.ErrNotExist, or another
\* error
LstatResults ==
    (IF playlist = "present" THEN {"nil"} ELSE {"notexist"}) \cup {"other"}

\* ffmpeg.go 132 and 135: _, err = os.Lstat(playlistPath)
PollLstat ==
    /\ ppc = "lstat"
    /\ \E r \in LstatResults :
          /\ lerr' = r
          /\ observed' = (observed \/ r = "nil")
    /\ ppc' = "cond"
    /\ UNCHANGED <<restVars, ch, closed, done, waited, playlist, wpc, cpc>>

\* ffmpeg.go 133: for !done && errors.Is(err, fs.ErrNotExist); done is read
\* without synchronisation, so the read may miss the write of line 142
PollCond ==
    /\ ppc = "cond"
    /\ \E seen \in {done, FALSE} :
          ppc' = IF ~seen /\ lerr = "notexist" THEN "sleep" ELSE "send"
    /\ UNCHANGED <<restVars, ch, closed, done, waited, observed, playlist, lerr, wpc, cpc>>

\* ffmpeg.go 134: time.Sleep(100 * time.Millisecond)
PollSleep ==
    /\ ppc = "sleep"
    /\ ppc' = "lstat"
    /\ UNCHANGED <<restVars, ch, closed, done, waited, observed, playlist, lerr, wpc, cpc>>

\* ch <- v on the channel of capacity 1: a panic when ch is closed, a wait
\* while the buffer is full
Send(v) ==
    IF closed THEN [panic |-> TRUE, ok |-> FALSE, ch |-> ch]
    ELSE [panic |-> FALSE, ok |-> Len(ch) < 1, ch |-> Append(ch, v)]

\* ffmpeg.go 137: ch <- true
PollSend ==
    /\ ppc = "send"
    /\ Send(TRUE).panic \/ Send(TRUE).ok
    /\ ppc' = IF Send(TRUE).panic THEN "panic" ELSE "end"
    /\ ch' = Send(TRUE).ch
    /\ UNCHANGED <<restVars, closed, done, waited, observed, playlist, lerr, wpc, cpc>>

\* ffmpeg.go 140: _ = cmd.Wait() returns when ffmpeg has exited
WaitReturns ==
    /\ wpc = "wait"
    /\ wpc' = "send"
    /\ UNCHANGED <<restVars, ch, closed, done, waited, observed, playlist, lerr, ppc, cpc>>

\* ffmpeg.go 141: ch <- false
WaitSend ==
    /\ wpc = "send"
    /\ Send(FALSE).panic \/ Send(FALSE).ok
    /\ wpc' = IF Send(FALSE).panic THEN "panic" ELSE "setdone"
    /\ ch' = Send(FALSE).ch
    /\ UNCHANGED <<restVars, closed, done, waited, observed, playlist, lerr, ppc, cpc>>

\* ffmpeg.go 142: done = true
WaitSetDone ==
    /\ wpc = "setdone"
    /\ done' = TRUE
    /\ wpc' = "end"
    /\ UNCHANGED <<restVars, ch, closed, waited, observed, playlist, lerr, ppc, cpc>>

\* ffmpeg.go 144: return <-ch
Receive ==
    /\ cpc = "recv"
    /\ ch # <<>>
    /\ waited' = IF Head(ch) THEN "true" ELSE "false"
    /\ ch' = Tail(ch)
    /\ cpc' = "return"
    /\ UNCHANGED <<restVars, closed, done, observed, playlist, lerr, ppc, wpc>>

\* ffmpeg.go 129: defer close(ch), run as waitForPlaylist returns
Close ==
    /\ cpc = "return"
    /\ closed' = TRUE
    /\ cpc' = "returned"
    /\ UNCHANGED <<restVars, ch, done, waited, observed, playlist, lerr, ppc, wpc>>

PlaylistInit ==
    /\ Booted
    /\ disk = [d \in Dirs |-> NoFile]
    /\ qin = Options(DotStr, 0, FALSE)
    /\ args = [fn |-> "waitForPlaylist"]

PlaylistNext ==
    \/ WaitStart \/ FfmpegWrites
    \/ PollLstat \/ PollCond \/ PollSleep \/ PollSend
    \/ WaitReturns \/ WaitSend \/ WaitSetDone
    \/ Receive \/ Close

SpecPlaylist == PlaylistInit /\ [][PlaylistNext]_vars

(***************************************************************************)
(* The properties.                                                         *)
(***************************************************************************)
\* the positions of the worker inside injestDirectory.Process
InjestPcs ==
    {"scan", "load", "gate", "request", "timer", "tsgate", "children",
     "publish", "wencode", "wrename"}

\* the positions after ReadInfo returned
LoadedPcs == InjestPcs \ {"scan", "load"}

\* both writers are between two read-modify-rename sequences
Quiescent == mpc = "idle" /\ pc \notin (InjestPcs \cup {"crashed"})

\* the last completed Mark is in the sidecar
MarkKept ==
    lastMark.ok =>
        /\ disk[lastMark.dir].bytes = "full"
        /\ lastMark.base \in DOMAIN disk[lastMark.dir].data.Seen
        /\ disk[lastMark.dir].data.Seen[lastMark.base] = lastMark.state

\* the fields the last ingest published are in the sidecar
IngestKept ==
    lastPub.dir \in Dirs =>
        /\ disk[lastPub.dir].data.Timestamp = lastPub.data.Timestamp
        /\ disk[lastPub.dir].data.AniListID = lastPub.data.AniListID
        /\ disk[lastPub.dir].data.Injested = lastPub.data.Injested

\* C1: Mark and the ingest of the same directory are serialized over their
\* read-modify-rename sequences: once both are done, .info.json holds the seen
\* value Mark set and the fields the ingest wrote; neither update is lost.
C1_NoLostUpdate == Quiescent => (MarkKept /\ IngestKept)

\* C2: LIFO: every task the worker takes is the most recently submitted of the
\* pending ones, and the others stay pending in their order.
C2_TakeIsNewest ==
    [][(pc = "check" /\ pc' \in {"scan", "thumb"}) =>
          /\ \E k \in 1..Len(pending) : cur' = pending[k]
          /\ \A k \in 1..Len(pending) : pending[k].seq <= cur'.seq
          /\ pending' = SubSeq(pending, 1, Len(pending) - 1)]_vars

\* a take that chose among several pending tasks
C2_Witness ==
    /\ pc \in {"scan", "thumb"}
    /\ Len(pending) >= 2
    /\ \A k \in 1..Len(pending) : pending[k].seq < cur.seq

\* clean(root/p) is neither the root nor below it
Escapes(p) ==
    LET c == Clean(Root \o <<Sep>> \o p)
    IN  c # Root /\ ~HasPrefix(c, Root \o <<Sep>>)

\* C3: path-escape rejection: Queue on a path that escapes the root enqueues
\* nothing, whatever id and force are.
C3_EscapeRejected ==
    (submits = 1 /\ Escapes(qin.Directory)) => (pending = <<>> /\ nextSeq = 1)

\* Queue was called on ../mx with an id and force
C3_Witness ==
    /\ submits = 1
    /\ qin = Options(EscapeRel, OverrideID, TRUE)
    /\ Escapes(qin.Directory)
    /\ pending = <<>>

\* d/.info.json goes from one whole snapshot to the next one of a writer
WholeStep(d) ==
    \/ disk'[d] = disk[d]
    \/ /\ pc = "wrename" /\ d = absPath(cur)
       /\ disk'[d] = File("full", Encode(info))
    \/ /\ mpc = "wrename" /\ d = mreq.dir
       /\ disk'[d] = File("full", Encode(minfo))

\* C4: atomic publish: at every step of WriteInfo, a crash or an error
\* included, .info.json is absent or whole, and it changes only from the whole
\* previous snapshot to the whole new one.
C4_AtomicPublish ==
    /\ [](\A d \in Dirs : disk[d].bytes \in {"none", "full"})
    /\ [][\A d \in Dirs : WholeStep(d)]_vars

\* the process died with a temporary file half written beside a whole sidecar
C4_Witness ==
    /\ pc = "crashed"
    /\ \E w \in Writers : tmp[w].bytes = "empty"
    /\ disk[SDir].bytes = "full"
    /\ lastPub.dir = SDir

\* C5: once the context is cancelled Run returns when the task in progress
\* ends, also when the queue is empty and the worker waits for a task: a
\* cancelled worker has returned or can take its next step.
C5_RunReturnsAfterCancel ==
    cancelled => (pc = "returned" \/ ENABLED (WorkerNext \/ TimePasses))

\* C6 as stated: once the context is cancelled no submission adds a task to
\* the pending queue.
C6_SubmitAfterCancelIsNoOp ==
    [][cancelled => Len(pending') <= Len(pending)]_vars

\* C6: a submission after the cancellation still appends its tasks to the
\* pending queue, behind the ones already there; after Run returned nothing
\* takes them.
C6_SubmitAfterCancelAppends ==
    [][/\ (cancelled /\ nextSeq' > nextSeq) =>
             /\ Len(pending') = Len(pending) + (nextSeq' - nextSeq)
             /\ SubSeq(pending', 1, Len(pending)) = pending
             /\ \A k \in (Len(pending) + 1)..Len(pending') :
                    pending'[k].seq >= nextSeq
       /\ pc = "returned" =>
             /\ pc' = "returned"
             /\ SubSeq(pending', 1, Len(pending)) = pending]_vars

\* Run returned and a task submitted after the cancellation is pending
C6_Witness ==
    /\ cancelled
    /\ pc = "returned"
    /\ \E k \in 1..Len(pending) : pending[k].seq >= cancelSeq

\* an ingest that found AniListID -1 in the sidecar issued no request and kept it
KeepsNegative == reqs = 0 /\ pc # "request" /\ info.AniListID = -1

\* C7 as stated: an ingest without force of a directory whose sidecar holds
\* AniListID -1 issues no request and leaves the -1.
C7_NegativeCacheSticky ==
    (pc \in LoadedPcs /\ loadedID = -1 /\ ~cur.Force) => KeepsNegative

\* C7: an ingest without force and without an id override of a directory
\* whose sidecar holds AniListID -1 issues no request and leaves the -1.
C7_NegativeCacheStickyNoOverride ==
    (pc \in LoadedPcs /\ loadedID = -1 /\ ~cur.Force /\ cur.ID = 0) => KeepsNegative

\* such an ingest is about to publish the sidecar, the -1 kept
C7_Witness ==
    /\ pc = "wrename"
    /\ loadedID = -1 /\ ~cur.Force /\ cur.ID = 0
    /\ tmp["worker"].data.AniListID = -1
    /\ reqs = 0

\* C8: two consecutive requestInfo calls that contact AniList start at least
\* 10 seconds apart, so n of them span at least (n-1)*10 seconds.
C8_RateLimit ==
    starts.n >= 2 =>
        /\ starts.last - starts.prev >= RateLimitSeconds
        /\ starts.last - starts.first >= (starts.n - 1) * RateLimitSeconds

\* a third contacting call started
C8_Witness ==
    /\ starts.n = 3
    /\ pc = "request"
    /\ starts.last - starts.prev >= RateLimitSeconds

\* C9: a requestInfo whose context is cancelled during the 10 second wait
\* returns at once: it never sits in the wait with the timer still running.
C9_CancelEndsWait == (cancelled /\ pc = "timer") => TimerFired

\* the names the claim expects among the keys of seen
MediaFileNames(ents) ==
    {n \in DOMAIN ents : ~IsHidden(n) /\ ents[n].kind = "file" /\ IsMedia(n)}

\* the names the claim expects among the keys of injested
ChildDirNames(ents) ==
    {n \in DOMAIN ents : ~IsHidden(n) /\ ents[n].kind = "dir" /\ n # NameEaDir}

\* C10: a successful ingest of a directory that did not change during the
\* ingest publishes a sidecar whose seen keys are exactly the media files and
\* whose injested keys are exactly the child directories other than @eaDir.
C10_KeysTrackDirectory ==
    [][(pc = "wrename" /\ result' = "nil" /\ scanStamp = fsChanges') =>
          /\ DOMAIN disk'[absPath(cur)].data.Seen
                 = MediaFileNames(fs[absPath(cur)].ents)
          /\ DOMAIN disk'[absPath(cur)].data.Injested
                 = ChildDirNames(fs[absPath(cur)].ents)]_vars

\* the step in which an ingest publishes its sidecar and returns nil
Publishes == pc = "wrename" /\ result' = "nil"

\* C12: the first successful ingest of a directory creates its sidecar:
\* whenever an ingest returns nil, also that of a directory with nothing to
\* record and force=false, .info.json of the directory exists.
C12_SidecarAfterIngest ==
    [][(cur.kind = "injest" /\ pc \in InjestPcs /\ result' = "nil") =>
          disk'[absPath(cur)].bytes = "full"]_vars

\* C13: the sidecar a parent publishes holds, for each child directory the
\* ingest found, the modification time of the child as the ingest saw it, and
\* no injested value is later than the child's current mtime.
C13_IngestedHoldsMtime ==
    [][Publishes =>
          LET new == disk'[absPath(cur)].data.Injested IN
          /\ \A c \in DOMAIN scan.directories :
                 c \in DOMAIN new /\ new[c] = scan.directories[c]
          /\ \A c \in DOMAIN new :
                 c \in DOMAIN fs[absPath(cur)].ents
                     => new[c] <= fs[absPath(cur)].ents[c].mtime]_vars

\* the positions of Process after requestInfo returned
RequestedPcs == {"timer", "tsgate", "children", "publish", "wencode", "wrename"}

\* AniListID when requestInfo was called
CallID == IF cur.ID # 0 THEN cur.ID ELSE loadedID

\* C14: a failure inside requestInfo does not abort the ingest and leaves
\* AniListID as it was when requestInfo was called: the worker goes on with
\* the later steps of Process holding that id.
C14_CatalogErrorLeavesID ==
    (pc \in RequestedPcs /\ lookup \in {"error", "cover"}) => info.AniListID = CallID

\* C15: a positive AniListID reaches a published sidecar only from a lookup
\* that succeeded in this ingest; an override id whose lookup failed is not
\* persisted.
C15_PositiveIDWasResolved ==
    [][Publishes =>
          LET new == disk'[absPath(cur)].data.AniListID IN
          (new > 0 /\ new # disk[absPath(cur)].data.AniListID)
              => lookup \in {"found", "cover"}]_vars

\* C16: an ingest without force never publishes a timestamp below the one of
\* the sidecar it replaces, whatever was added to or removed from the directory.
C16_TimestampMonotonic ==
    [][(Publishes /\ ~cur.Force) =>
          disk'[absPath(cur)].data.Timestamp >= disk[absPath(cur)].data.Timestamp]_vars

\* a.mkv was removed and S ingested without force: the sidecar keeps the
\* timestamp of the file that is gone
C16_Witness ==
    /\ pc = "select" /\ result = "nil"
    /\ cur.kind = "injest" /\ ~cur.Force
    /\ NameA \notin DOMAIN fs[SDir].ents
    /\ lastPub.dir = SDir
    /\ disk[SDir].data.Seen = NoEntries
    /\ disk[SDir].data.Timestamp = 1

\* the step in which ServeMark answers its request
MarkAnswers == mpc' = "idle" /\ (mpc # "idle" \/ marks' # marks)

\* C17: Mark(file, b) answered 200 has set seen[file] = b in a sidecar that
\* had the key and changed nothing else in it; for a name that is no seen key
\* the answer is 404, for a query that is no boolean 400, and .info.json is
\* left as it was.
C17_MarkFrame ==
    [][MarkAnswers =>
          LET req == mreq'
              parsed == ParseBool(req.query)
              old == disk[req.dir].data
          IN  /\ ~parsed.ok => (lastMark'.status = 400 /\ disk' = disk)
              /\ (parsed.ok /\ req.base \notin DOMAIN old.Seen)
                     => (lastMark'.status = 404 /\ disk' = disk)
              /\ lastMark'.status = 200
                     => /\ req.base \in DOMAIN old.Seen
                        /\ disk' = [disk EXCEPT ![req.dir] =
                              File("full", [old EXCEPT !.Seen[req.base] = parsed.value])]]_vars

\* C11: reconciliation is idempotent: ReadInfo applied to the directory again,
\* on the sidecar its first result was stored as, returns the same persistent
\* fields and is not dirty.
C11_ReconcileIdempotent ==
    Len(ret) = 2 => (Encode(ret[2]) = Encode(ret[1]) /\ ~ret[2].changed)

\* the first application migrated a seen marker and added a directory, the
\* second one ran
C11_Witness ==
    /\ args.fn = "ReadInfo"
    /\ Len(ret) = 2
    /\ args.file = NoFile
    /\ ret[1].changed
    /\ ret[1].Seen = [n \in {NameA} |-> TRUE]
    /\ DOMAIN ret[1].Injested = {NameS}

\* the first k characters of the name, or the last k
Affix(name, k, isPrefix) ==
    IF isPrefix THEN SubSeq(name, 1, k) ELSE SubSeq(name, Len(name) - k + 1, Len(name))

\* all the names are at least k long and share that affix
SharedAffix(strs, k, isPrefix) ==
    \A i, j \in 1..Len(strs) :
        /\ Len(strs[i]) >= k
        /\ Affix(strs[i], k, isPrefix) = Affix(strs[j], k, isPrefix)

\* the length of the longest affix shared by all the names
LongestShared(strs, isPrefix) ==
    CHOOSE k \in 0..MaxNameLen + 1 :
        /\ SharedAffix(strs, k, isPrefix)
        /\ \A m \in (k + 1)..(MaxNameLen + 1) : ~SharedAffix(strs, m, isPrefix)

\* C20: commonLength returns the length of the longest prefix (or suffix)
\* shared by all the names, whatever their order, and 0 for an empty list, a
\* single name and equal names.
C20_CommonLength ==
    (args.fn = "commonLength" /\ ret # <<>>) =>
        ret[1] = IF \/ Len(args.strings) < 2
                    \/ \A i \in 1..Len(args.strings) : args.strings[i] = args.strings[1]
                 THEN 0
                 ELSE LongestShared(args.strings, args.isPrefix)

\* a seen map whose values are all equal to v (the empty map included)
AllSeen(seen, v) == \A k \in DOMAIN seen : seen[k] = v

\* a seen map holding both values
Mixed(seen) == ~AllSeen(seen, TRUE) /\ ~AllSeen(seen, FALSE)

\* the map with every value set to v
SetAll(seen, v) == [k \in DOMAIN seen |-> v]

\* a mark override that read a homogeneous map and wrote its sidecar
Flipped(e) == e.written /\ ~Mixed(e.before)

\* C18: a mark override on an all-false seen map makes it all true, on an
\* all-true map all false, and leaves a mixed map as it is without writing;
\* hence two successive mark overrides on a homogeneous map restore the
\* original values.
C18_MarkOverrideCollapses ==
    /\ \A i \in DOMAIN olog :
          /\ Mixed(olog[i].before) => olog[i].after = olog[i].before /\ ~olog[i].written
          /\ ~Mixed(olog[i].before) /\ ~AllSeen(olog[i].before, TRUE)
                => olog[i].after = SetAll(olog[i].before, TRUE)
          /\ ~Mixed(olog[i].before) /\ AllSeen(olog[i].before, TRUE) /\ olog[i].before # <<>>
                => olog[i].after = SetAll(olog[i].before, FALSE)
    /\ Len(olog) = 2 /\ Flipped(olog[1]) /\ Flipped(olog[2])
          => olog[2].after = olog[1].before

\* the handler answers 202
Answers202 == opc = "id" /\ opc' = "idle" /\ lastOverride'.status = 202

\* the task an override request asks for, as Queue stamps it
OverrideTask == Stamp(InjestTask(oreq.dir, oreq.ID, oreq.Force), nextSeq)

\* the id the request is compared with: 0 for a request without id, else the
\* id of the sidecar
ComparedID ==
    IF oreq.ID = 0 THEN 0
    ELSE IF oreq.Mark THEN oinfo.AniListID
    ELSE disk[fullPath(oreq)].data.AniListID

\* C19 as stated: an Override answered 202 has submitted exactly one Ingest
\* task for the directory with the id and force of the request.
C19_AcceptedSubmitsOne ==
    [][Answers202 => pending' = Append(pending, OverrideTask)]_vars

\* C19: an Override answered 202 has submitted exactly one Ingest task for the
\* directory with the id and force of the request when the id differs from the
\* compared id or force is set, and has submitted none otherwise.
C19_AcceptedSubmitsWhenNeeded ==
    [][Answers202 =>
         IF oreq.ID # ComparedID \/ oreq.Force
            THEN pending' = Append(pending, OverrideTask)
            ELSE pending' = pending]_vars

\* a forced override without a new id was answered 202 and its task is queued
C19_Witness ==
    /\ lastOverride.status = 202 /\ lastOverride.queued
    /\ opc = "idle" /\ oreq.Force /\ oreq.ID = 0
    /\ \E i \in DOMAIN pending : Stamp(pending[i], 0) = InjestTask(oreq.dir, 0, TRUE)

\* the shortest of the names
ShortestLen(strs) == CHOOSE n \in 0..MaxNameLen : 
    /\ \E i \in 1..Len(strs) : Len(strs[i]) = n
    /\ \A i \in 1..Len(strs) : Len(strs[i]) >= n

\* C21: in a listing of two or more file names whose longest common prefix P
\* and longest common suffix S together are no longer than the shortest name,
\* every file's title is its name without P at the front and S at the back
\* (the full name when the names share nothing).
C21_TitleTrimming ==
    (args.fn = "titles" /\ ret # <<>> /\ Len(args.strings) >= 2) =>
        LET P == LongestShared(args.strings, TRUE)
            S == LongestShared(args.strings, FALSE)
        IN  P + S <= ShortestLen(args.strings) =>
                /\ ~ret[2]
                /\ \A i \in 1..Len(ret[1]) :
                      ret[1][i].Title = SubSeq(ret[1][i].Name, P + 1, Len(ret[1][i].Name) - S)

\* the call of the thumbnailer has returned with its time codes
Sampled == args.fn = "Process" /\ ret # <<>> /\ ~ret[1].created.diverges
              /\ ret[1].created.timeCodes # <<>>

\* C22: for every probed duration d > 0 exactly five time codes are sampled:
\* 2min + k*(d - 4min)/5 for k = 0..4 when d > 10 minutes, all within
\* [2min, d - 2min), and k*d/5 for k = 0..4 otherwise.
C22_FiveTimeCodes ==
    /\ (args.fn = "Process" /\ ret # <<>>) => ~ret[1].created.diverges
    /\ Sampled =>
        LET d == args.duration
            tc == ret[1].created.timeCodes
        IN  /\ Len(tc) = 5
            /\ \A k \in 0..4 :
                  IF d > 10 * Minute
                     THEN /\ tc[k + 1] = 2 * Minute + k * ((d - 4 * Minute) \div 5)
                          /\ tc[k + 1] >= 2 * Minute /\ tc[k + 1] < d - 2 * Minute
                     ELSE tc[k + 1] = k * (d \div 5)

\* the Thumbnail task has returned
Returned == args.fn = "Process" /\ ret # <<>> /\ ~ret[1].created.diverges

Contains(s, c) == \E i \in 1..Len(s) : s[i] = c

\* C29: CutLastString(s, sep) with a one-character separator splits s at the
\* last sep: when s contains sep, pre + sep + post is s and post holds no sep;
\* when it does not, pre is empty and post is s.
C29_CutLastString ==
    (args.fn = "CutLastString" /\ ret # <<>> /\ Len(args.sep) = 1) =>
        /\ ~ret[1].panic
        /\ IF Contains(args.s, args.sep[1])
              THEN /\ ret[1].pre \o args.sep \o ret[1].post = args.s
                   /\ ~Contains(ret[1].post, args.sep[1])
              ELSE ret[1].pre = <<>> /\ ret[1].post = args.s

\* the sidecar of S cannot be decoded
Undecodable == disk[SDir].bytes \in {"empty", "partial"}

\* the task in the worker's hands is the ingest of S
IngestsS == cur.kind = "injest" /\ absPath(cur) = SDir

\* the override handler reads the sidecar in this step
OverrideReads == opc = "read" \/ (opc = "id" /\ oreq.ID # 0 /\ ~oreq.Mark)

TaskFails == pc \in (InjestPcs \cup {"thumb"}) /\ pc' # pc /\ result' = "err"

\* C24: when a task fails the worker does not put it back nor run it again
\* and goes on to the next pending task; Run does not return because of a
\* task error.
C24_TaskErrorIsLogged ==
    [][/\ TaskFails => pc' = "select" /\ pending' = pending
       /\ (result = "err" /\ pc = "check" /\ pending # <<>> /\ pc' # pc) =>
             /\ cur' = Last(pending) /\ cur'.seq # cur.seq
             /\ pc' \in {"scan", "thumb"}
       /\ (pc' = "returned" /\ pc # "returned") => cancelled
       /\ \A i \in DOMAIN pending' : cur # NoTask => pending'[i].seq # cur.seq]_vars

\* a task has failed and the worker, back in its critical section, is about to
\* take the next one
C24_Witness ==
    /\ result = "err" /\ pc = "check" /\ pending # <<>> /\ ~cancelled

\* the worker is inside the Process of a task
Processing == pc \in (InjestPcs \cup {"thumb"})

\* C25: the queue lock is never held while a task is processed (the catalog
\* call, the rate-limit wait, the cover download, the thumbnailer included),
\* so a Queue call made meanwhile completes without waiting for the task.
C25_NoLockWhileProcessing ==
    Processing => mu = "none" /\ (submits < MaxSubmits => ENABLED ExtQueue)

\* a task was queued from outside while the worker was in its catalog call or
\* its rate-limit wait
C25_Witness ==
    /\ pc \in {"request", "timer"}
    /\ pending # <<>> /\ Last(pending).seq > cur.seq

\* the startup seed Ingest{"."}
IsSeed(t) == t.kind = "injest" /\ t.path = DotStr /\ t.ID = 0 /\ ~t.Force

\* the seed and one external task are the only tasks submitted so far and
\* both are pending
BothPending ==
    /\ Len(pending) = 2 /\ nextSeq = 3
    /\ \E i, j \in 1..2 : IsSeed(pending[i]) /\ ~IsSeed(pending[j])

\* the worker takes a task in this step
TakesTask == pc = "check" /\ pc' \in {"scan", "thumb"}

\* C26 as stated: with the seed and an external task both pending, the
\* external task is processed first, whichever was submitted first.
C26_ExternalBeforeSeed ==
    [][(BothPending /\ TakesTask) => ~IsSeed(cur')]_vars

\* C26: with the seed and an external task both pending, the one submitted
\* last is processed first: the external task when it was submitted after the
\* seed, the seed when the external task was submitted before it.
C26_LastSubmittedFirst ==
    [][(BothPending /\ TakesTask) =>
         /\ cur' = pending[2] /\ pending' = <<pending[1]>>
         /\ cur'.seq > pending[1].seq
         /\ IsSeed(cur') <=> ~IsSeed(pending[1])]_vars

\* the seed was taken while the external task submitted before it stays pending
C26_Witness ==
    /\ pc = "scan" /\ IsSeed(cur) /\ cur.seq = 2
    /\ Len(pending) = 1 /\ ~IsSeed(pending[1]) /\ pending[1].seq = 1

\* the seed was queued, nothing is pending and the worker waits for a task
Drained == submits > 0 /\ pending = <<>> /\ pc = "waiting"

\* the directory holds something to record
HoldsMedia(d) ==
    fs[d].exists /\ (MediaFileNames(fs[d].ents) # {} \/ ChildDirNames(fs[d].ents) # {})

\* the sidecar of the directory names its media files and child directories
Matches(d) ==
    /\ disk[d].bytes = "full"
    /\ DOMAIN disk[d].data.Seen = MediaFileNames(fs[d].ents)
    /\ DOMAIN disk[d].data.Injested = ChildDirNames(fs[d].ents)

\* C27: on a tree that no longer changes, after the seed and finitely many
\* external submissions the worker eventually stays at an empty pending queue,
\* and whenever it is there every directory that holds media files or
\* subdirectories has a sidecar whose seen and injested keys match it.
C27_Convergence ==
    /\ <>[]Drained
    /\ [](Drained => \A d \in Dirs : HoldsMedia(d) => Matches(d))

\* the pcs of an ingest that is past its catalog gate
GatedPcs == {"request"} \cup RequestedPcs

\* requestInfo was called in the current ingest
Invoked == pc = "request" \/ reqs > 0 \/ lookup = "skipped"

\* the condition of the claim on the task and the sidecar as loaded
GateCondition == cur.Force \/ cur.ID # loadedID \/ DOMAIN info.Seen # {}

\* C30, first half: past the catalog gate, requestInfo was called exactly when
\* force is set, or the task's id differs from the AniListID of the sidecar,
\* or the reconciled sidecar has a seen entry.
C30_InvokedIffGate ==
    pc \in GatedPcs => (Invoked <=> GateCondition)

\* C30: requestInfo is called exactly when force is set, or the task's id
\* differs from the sidecar's AniListID, or the reconciled sidecar has a seen
\* entry; and an ingest without force and with id 0 of a directory that holds
\* no media file, did not change during the ingest and has AniListID 0 in its
\* sidecar sends no request to the catalog.
C30_CatalogGate ==
    /\ C30_InvokedIffGate
    /\ (/\ pc \in GatedPcs
        /\ ~cur.Force /\ cur.ID = 0 /\ loadedID = 0
        /\ scanStamp = fsChanges
        /\ MediaFileNames(fs[absPath(cur)].ents) = {})
          => (reqs = 0 /\ pc # "request")

\* the sidecar's AniListID when requestInfo is called: Process has stored the
\* task's id in it
IDAtCall == IF args.task.ID # 0 THEN args.task.ID ELSE args.loaded.AniListID

\* C31: a request sent by requestInfo is a lookup by id exactly when byID is
\* set and the sidecar's AniListID is greater than 0, and it then carries that
\* id; in every other case, a negative AniListID included, it is a search.
C31_QueryByIDIffPositive ==
    (args.fn = "requestInfo" /\ ret # <<>> /\ ret[1].kind # "none") =>
        /\ ret[1].kind = "id" <=> (args.task.ID # 0 /\ IDAtCall > 0)
        /\ ret[1].kind = "id" => ret[1].id = IDAtCall

\* the tasks a step appended to the pending queue
Added == SubSeq(pending', Len(pending) + 1, Len(pending'))

\* the step of the timestamp gate
GateStep == pc = "tsgate" /\ pc' = "children"

\* the paths of the thumbnails the claim expects for the directory as it is
MediaPaths(dir) == {Join(dir, n) : n \in MediaFileNames(fs[dir].ents)}

\* C32: the timestamp gate submits one Thumbnail task for each media file of
\* the scan when force is set or the scan's lastTime is later than the
\* sidecar's Timestamp, and none otherwise; when the directory did not change
\* during the ingest these are exactly its visible regular media files, so no
\* hidden file, directory or non-media file gets a Thumbnail task.
C32_TimestampGate ==
    [][GateStep =>
          /\ SubSeq(pending', 1, Len(pending)) = pending
          /\ \A k \in 1..Len(Added) : Added[k].kind = "thumbnail"
          /\ IF cur.Force \/ scan.lastTime > info.Timestamp
                THEN /\ Len(Added) = Len(scan.files)
                     /\ \A k \in 1..Len(Added) :
                            Added[k].path = Join(absPath(cur), scan.files[k])
                     /\ scanStamp = fsChanges =>
                            /\ {Added[k].path : k \in 1..Len(Added)} = MediaPaths(absPath(cur))
                            /\ Len(Added) = Cardinality(MediaPaths(absPath(cur)))
                ELSE Added = <<>>]_vars

\* the gate of an ingest without force has submitted the thumbnail of S/a.mkv
C32_Witness ==
    /\ pc = "children"
    /\ ~cur.Force
    /\ absPath(cur) = SDir
    /\ \E k \in 1..Len(pending) :
          pending[k].kind = "thumbnail" /\ pending[k].path = Join(SDir, NameA)

\* the step of the child reconcile
ChildStep == pc = "children" /\ pc' = "publish"

\* the children of the scan whose mtime is later than the sidecar's entry
\* (a child without an entry counts as never ingested)
StaleChildren ==
    {c \in DOMAIN scan.directories :
        scan.directories[c] > (IF c \in DOMAIN info.Injested THEN info.Injested[c] ELSE 0)}

\* C33: the child reconcile of an ingest of p submits exactly one Ingest task
\* for join(p, child) for each child directory of the scan whose mtime is
\* later than the sidecar's injested entry and no other task; each has id 0
\* and force=false whatever the parent task carried; when the directory did
\* not change during the ingest the children of the scan are its visible
\* directories other than @eaDir.
C33_ChildReconcile ==
    [][ChildStep =>
          /\ SubSeq(pending', 1, Len(pending)) = pending
          /\ Len(Added) = Cardinality(StaleChildren)
          /\ {Added[k].path : k \in 1..Len(Added)}
                 = {Join(cur.path, c) : c \in StaleChildren}
          /\ \A k \in 1..Len(Added) :
                 Added[k].kind = "injest" /\ Added[k].ID = 0 /\ ~Added[k].Force
          /\ scanStamp = fsChanges =>
                 DOMAIN scan.directories = ChildDirNames(fs[absPath(cur)].ents)]_vars

\* a forced ingest of S has submitted the ingest of its child a.mkv
C33_Witness ==
    /\ pc = "publish"
    /\ cur.Force
    /\ absPath(cur) = SDir
    /\ \E k \in 1..Len(pending) :
          /\ pending[k].kind = "injest" /\ pending[k].path = Join(SRel, NameA)
          /\ pending[k].ID = 0 /\ ~pending[k].Force

\* some row of the answer binds the field
RowsBind(field) ==
    /\ ~args.answer.err
    /\ \E k \in 1..Len(args.answer.rows) : args.answer.rows[k][field] # ""

\* the title the fallback chain of the claim arrives at
ChainTitle ==
    IF RowsBind("label") THEN "label"
    ELSE IF RowsBind("bangumi") /\ ~args.bangumiErr THEN "bangumi"
    ELSE IF RowsBind("bahamut") /\ ~args.bahamutErr THEN "bahamut"
    ELSE args.previous

\* C34: a Chinese label in the WikiData answer is adopted before any database
\* title, otherwise Bangumi's title, otherwise Bahamut's; an error in a step
\* only moves on to the next step and never fails requestInfo, and when every
\* step fails ChineseTitle keeps its previous value.
C34_ChineseTitleChain ==
    (args.fn = "getChineseTitle" /\ ret # <<>>) =>
        /\ ~ret[1].err
        /\ ret[1].ChineseTitle = ChainTitle

\* the marker file of a media file: .NAME.seen
MarkerOf(name) == DotStr \o name \o <<".", "s", "e", "e", "n">>

\* the value the claim expects for a seen key when a sidecar was stored
StoredSeen(name) ==
    IF name \in DOMAIN args.file.data.Seen THEN args.file.data.Seen[name] ELSE FALSE

\* C35: without a stored .info.json the first ReadInfo gives every media file
\* with a marker .NAME.seen the value true and every other media file false;
\* with a stored .info.json the markers change no seen value; and no marker
\* file is ever a key of seen.
C35_SeenMarkerMigration ==
    (args.fn = "ReadInfo" /\ ret # <<>>) =>
        LET got == ret[1].Seen
            ents == args.dir.ents
        IN  /\ args.file.bytes = "none" =>
                   /\ DOMAIN got = MediaFileNames(ents)
                   /\ \A f \in DOMAIN got : got[f] = (MarkerOf(f) \in DOMAIN ents)
            /\ args.file.bytes = "full" =>
                   \A f \in DOMAIN got : got[f] = StoredSeen(f)
            /\ \A f \in DOMAIN got : ~IsHidden(f) /\ f # NameMarker

\* a.mkv with its marker and no sidecar: the first ReadInfo marked it seen
C35_Witness ==
    /\ args.fn = "ReadInfo" /\ ret # <<>>
    /\ args.file.bytes = "none"
    /\ NameA \in MediaFileNames(args.dir.ents)
    /\ NameMarker \in DOMAIN args.dir.ents
    /\ ret[1].Seen[NameA] = TRUE

\* the worker is in a second, plain ingest of the root: the root was published
\* by an earlier ingest, its child S was published after that, and nothing in
\* the tree ever changed
SettledRootIngest ==
    /\ pc \in InjestPcs
    /\ cur.kind = "injest" /\ absPath(cur) = Root
    /\ ~cur.Force /\ cur.ID = 0
    /\ fsChanges = 0
    /\ disk[Root].bytes = "full"
    /\ lastPub.dir = SDir

\* C36: a plain ingest of a directory that did not change since its last
\* successful ingest, and whose children were ingested since, submits no task
\* and does not rewrite .info.json: no step of the worker in such an ingest
\* changes the pending queue or the sidecar.
C36_Quiescence ==
    [][(SettledRootIngest /\ pc' # pc) =>
          /\ pending' = pending
          /\ disk'[Root] = disk[Root]]_vars

\* the serials of the pending tasks
PendingSeqs == {pending[k].seq : k \in 1..Len(pending)}

\* a worker that waits while a task is pending has been signalled
NoLostSignal == (pc = "waiting" /\ pending # <<>>) => woken

\* no task is pending twice, and the task in the worker's hands is not pending
HandedOnce ==
    /\ Cardinality(PendingSeqs) = Len(pending)
    /\ cur.kind # "none" => cur.seq \notin PendingSeqs

\* a task leaves the pending queue only into the worker's hands, one at a
\* time, and a task that left it never comes back
LeavesByTake ==
    /\ \A k \in 1..Len(pending') :
          pending'[k].seq \in PendingSeqs \/ pending'[k].seq >= nextSeq
    /\ PendingSeqs \ {pending'[k].seq : k \in 1..Len(pending')} # {} =>
          /\ pc = "check" /\ pc' \in {"scan", "thumb"}
          /\ Len(pending') = Len(pending) - 1
          /\ cur'.seq \in PendingSeqs
    /\ cur' # cur => (pc = "check" /\ pc' \in {"scan", "thumb"})

\* C37 as stated: every accepted task is taken and processed, so Run never
\* returns while a task is pending.
C37_EveryTaskTaken == pc = "returned" => pending = <<>>

\* C37: every task in the pending queue is handed to the single worker at most
\* once and one at a time; no signal is lost: a worker that waits while a task
\* is pending has been signalled; and the worker stops taking tasks only when
\* the context is cancelled.
C37_TakenOnceUnlessCancelled ==
    /\ [](NoLostSignal /\ HandedOnce /\ (pc = "returned" => cancelled))
    /\ [][LeavesByTake]_vars

\* a task was submitted while the worker waits, and the worker was signalled
C37_Witness == pc = "waiting" /\ pending # <<>> /\ woken

\* C38: for two or more file names, in whatever order the seen map yields
\* them, prefixLen + suffixLen is at most the length of every name, so no
\* slice Title[prefixLen : len(Title)-suffixLen] is out of range and
\* ServeListing does not panic.
C38_SliceInBounds ==
    (args.fn = "titles" /\ ret # <<>> /\ Len(args.strings) >= 2) =>
        /\ \A i \in 1..Len(args.strings) :
              commonLength(args.strings, TRUE) + commonLength(args.strings, FALSE)
                  <= Len(args.strings[i])
        /\ ~ret[2]

\* C39: the selection of the time codes ends for every probed duration d >= 0,
\* those under 5 units with their step of 0 included; and a duration of 0 or a
\* failed probe (no time code taken) makes Create return an error and leave
\* the output file as it was.
C39_TimeCodesTerminate ==
    (args.fn = "Process" /\ ret # <<>>) =>
        /\ ~ret[1].created.diverges
        /\ (args.duration = 0 \/ ret[1].created.timeCodes = <<>>) =>
              /\ ret[1].created.err
              /\ ret[1].created.webp = args.webp

\* C40: in waitForPlaylist, whatever the interleaving of the polling
\* goroutine, the goroutine waiting for ffmpeg and the caller, no goroutine
\* sends on ch after it was closed, and the result is true only if os.Lstat
\* found the playlist.
C40_NoSendAfterClose ==
    /\ ppc # "panic" /\ wpc # "panic"
    /\ waited = "true" => observed

====
